---------------------------- MODULE Spec2Model ----------------------------
(***************************************************************************)
(* Authentication and rate-limiting request pipeline of the movie          *)
(* recommendation service (MovieRecDemo_WithCursorRules/app).              *)
(*                                                                         *)
(* Representation                                                          *)
(*   time        whole seconds since service start (a Nat)                 *)
(*   user id     1..MaxUsers are rows of the users table; 0 stands for     *)
(*               None; MaxUsers+1 is an id that has no row                 *)
(*   api key     a tuple <<"sk", n>>; <<>> stands for None / header absent *)
(*   rate key    f"user:{id}" is <<"user", id>>, f"api:{id}" is            *)
(*               <<"api", id>>, f"ip:{host}" is <<"ip", host>>             *)
(*   host        caller address, a number of 1..MaxHosts                   *)
(***************************************************************************)
EXTENDS Integers, Sequences, FiniteSets, TLC

VARIABLES now, users, rl, redis_client, req, served, conc,
          clock, issued, verified,
          tokens, calls, last, handled,
          movie, today,
          movies, cache, answer,
          txn,
          MOVIES_DATABASE, reply

vars == <<now, users, rl, redis_client, req, served, conc,
          clock, issued, verified,
          tokens, calls, last, handled,
          movie, today,
          movies, cache, answer,
          txn,
          MOVIES_DATABASE, reply>>

\* the state of the request pipeline
pipeVars == <<now, users, rl, redis_client, req, served, conc>>
\* the state of token issue and verification
tokenVars == <<clock, issued, verified>>
\* the clients of the service endpoints: the tokens they were issued, the
\* requests they made with a user's token, the last request and its answer
clientVars == <<tokens, calls, last, handled>>
\* a row of the movies table and the current date
scoreVars == <<movie, today>>
\* the movies table, the cache entries of the movie service and the last
\* call of a movie service method with its outcome
movieVars == <<movies, cache, answer>>
\* the state of the components modelled apart from users and requests
\* the standalone demo service: its movie list and its last answer
demoVars == <<MOVIES_DATABASE, reply>>
extraVars == <<movieVars, txn, demoVars>>
\* the state the request pipeline leaves alone
aside == <<tokenVars, clientVars, scoreVars, extraVars>>
\* the state the service endpoints leave alone
apart == <<req, served, conc, tokenVars, scoreVars, extraVars>>
\* the state token issue and verification leave alone
beside == <<pipeVars, clientVars, scoreVars, extraVars>>
\* the state a movie update leaves alone
away == <<pipeVars, tokenVars, clientVars, extraVars>>
\* the state the movie service leaves alone
afar == <<now, users, rl, req, served, conc, tokenVars, clientVars, movie,
          txn, demoVars>>

---------------------------------------------------------------------------
(* Bounds of the model *)

MaxUsers == 2
MaxHosts == 1
MaxRequests == 2
MaxTime == 90
MaxConc == 2
TimeStep == 30

\* largest popularity and vote_average of a movie, in tenths
MaxTenths == 2
\* largest budget of a movie
MaxMoney == 2
\* age of the oldest movie, in years
MaxAge == 11
\* number of ids of the movies table that can hold a row
MaxMovies == 2
\* number of movies of the demo service's list, from its head
DemoMovies == 4
\* largest positive limit of a recommendation request
MaxLimit == 2
\* requests made to the service endpoints
MaxCalls == 4
\* clock ticks per second (the clock of token issue and verification)
TicksPerSecond == 2
\* seconds of service time within which a token is issued
MaxIssueTime == 2
\* largest explicit expires_delta, in clock ticks
MaxDelta == 3
\* seconds the clock runs on past the default lifetime of a token
MaxOverrun == 3

(* Configuration and program constants *)

\* settings.access_token_expire_minutes
access_token_expire_minutes == 1

\* settings.rate_limit_per_minute (validated >= 1)
rate_limit_per_minute == 1
\* the window handed to increment_rate_limit by rate_limit_middleware
RateWindow == 60
\* popularity_score: days of a year, years of the recency decay, the vote
\* count that gives a vote average its full weight, the ROI that gives the
\* full financial bonus
DaysPerYear == 365
DecayYears == 10
FullVotes == 1000
FullRoi == 10
\* strftime('%Y%m%d'): seconds of a calendar day
SecondsPerDay == 86400
\* timedelta(days=365), the lifetime of a generated API key
ApiKeyDays == 365
\* expiry instant of the bearer tokens presented to the service
TokenExp == 30
\* expiry instant recorded for API keys that carry one
KeyExp == 30

---------------------------------------------------------------------------
(* Values *)

NoId == 0
NoTime == -1
NoKey == <<>>
NoName == <<>>

UserIds == 1 .. MaxUsers
Hosts == 1 .. MaxHosts
Username(u) == <<"user", u>>
ApiKeyOf(u) == <<"sk", u>>
Email(u) == <<"mail", u>>
\* get_password_hash(p); user u registers with password u
Hash(p) == <<"hash", p>>

\* the ORM object handed around by the dependencies; NoUser stands for None
NoUser == [id |-> NoId, is_active |-> FALSE]
\* stands for an exception leaving a dependency instead of a value
Raised == [id |-> NoId, is_active |-> TRUE]

\* HTTPAuthorizationCredentials: none, an undecodable string, or a JWT
NoCredentials == [kind |-> "none", sub |-> NoName, user_id |-> NoId,
                  exp |-> NoTime, signed |-> FALSE]
Malformed == [kind |-> "malformed", sub |-> NoName, user_id |-> NoId,
              exp |-> NoTime, signed |-> FALSE]
Jwt(sub, uid, exp, signed) == [kind |-> "jwt", sub |-> sub, user_id |-> uid,
                               exp |-> exp, signed |-> signed]

\* bearer credentials a client may present
Credentials ==
    {NoCredentials, Malformed}
      \cup {Jwt(Username(u), u, TokenExp, TRUE) : u \in 1 .. MaxUsers + 1}
      \cup {Jwt(Username(1), 1, TokenExp, FALSE),
            Jwt(NoName, 1, TokenExp, TRUE),
            Jwt(Username(1), NoId, TokenExp, TRUE)}

\* X-API-Key header values a client may present
ApiKeyHeaders == {NoKey} \cup {ApiKeyOf(u) : u \in 0 .. MaxUsers}

\* the auth dependency the endpoint declares besides rate_limit_middleware
AuthDeps == {"none", "require_auth", "optional_auth", "get_current_active_user"}

RateKeys == ({"user", "api"} \X UserIds) \cup ({"ip"} \X Hosts)

NoCounter == [count |-> 0, expire_at |-> NoTime]

\* a column that holds None
Unset == -1

\* a movie row with every scored column None
NoMovie == [popularity |-> Unset, vote_average |-> Unset, vote_count |-> Unset,
            release_date |-> Unset, budget |-> Unset, revenue |-> Unset]

---------------------------------------------------------------------------
(* app/core/security.py *)

\* jwt.decode: signature, structure and exp are checked; every failure is None
NoPayload == [ok |-> FALSE, sub |-> NoName, user_id |-> NoId]

\* calendar.timegm(d.utctimetuple()): the whole seconds of an instant given in
\* clock ticks; jose stores exp so and reads the clock so
timegm(ticks) == ticks \div TicksPerSecond

\* timedelta(minutes = m) in clock ticks
Minutes(m) == m * 60 * TicksPerSecond

\* expires_delta = None
NoDelta == -1

\* variant: a failure tells its cause
verify_token_telling(token, t) ==
    IF token.kind # "jwt" THEN [ok |-> FALSE, sub |-> <<"malformed">>, user_id |-> NoId]
    ELSE IF ~token.signed THEN [ok |-> FALSE, sub |-> <<"signature">>, user_id |-> NoId]
    ELSE IF token.exp < t THEN [ok |-> FALSE, sub |-> <<"expired">>, user_id |-> NoId]
    ELSE [ok |-> TRUE, sub |-> token.sub, user_id |-> token.user_id]

verify_token(token, t) ==
    IF token.kind = "jwt" /\ token.signed /\ ~(token.exp < t)
    THEN [ok |-> TRUE, sub |-> token.sub, user_id |-> token.user_id]
    ELSE NoPayload

\* data is the claims dict, expires_delta a timedelta in clock ticks or NoDelta,
\* ticks the instant of the call; `if expires_delta:` sends a zero timedelta to
\* the default as well
create_access_token(data, expires_delta, ticks) ==
    LET expire == IF expires_delta # NoDelta /\ expires_delta # 0
                  THEN ticks + expires_delta
                  ELSE ticks + Minutes(access_token_expire_minutes)
    IN  Jwt(data.sub, data.user_id, timegm(expire), TRUE)

---------------------------------------------------------------------------
(* app/models/user.py, app/services/user_service.py *)

\* variant: a key is refused from its expiry instant on
is_api_key_valid_at_expiry(user, t) ==
    IF user.api_key = NoKey THEN FALSE
    ELSE IF user.api_key_expires_at # NoTime /\ t >= user.api_key_expires_at
         THEN FALSE
         ELSE TRUE

is_api_key_valid(user, t) ==
    IF user.api_key = NoKey THEN FALSE
    ELSE IF user.api_key_expires_at # NoTime /\ t > user.api_key_expires_at
         THEN FALSE
         ELSE TRUE

get_user_by_id(table, user_id) ==
    IF user_id \in DOMAIN table THEN user_id ELSE NoId

get_user_by_api_key(table, api_key) ==
    IF \E u \in DOMAIN table : table[u].api_key = api_key
    THEN CHOOSE u \in DOMAIN table : table[u].api_key = api_key
    ELSE NoId

Snapshot(table, u) == [id |-> u, is_active |-> table[u].is_active]

get_user_by_username(table, username) ==
    IF \E u \in DOMAIN table : table[u].username = username
    THEN CHOOSE u \in DOMAIN table : table[u].username = username
    ELSE NoId

get_user_by_email(table, email) ==
    IF \E u \in DOMAIN table : table[u].email = email
    THEN CHOOSE u \in DOMAIN table : table[u].email = email
    ELSE NoId

\* the row create_user adds
NewUser(username, email, password) ==
    [username |-> username, email |-> email, hashed_password |-> Hash(password),
     is_active |-> TRUE, api_key |-> NoKey, api_key_expires_at |-> NoTime,
     last_login |-> NoTime]

\* error is the message of the ValueError raised, <<>> when none is
create_user(table, username, email, password) ==
    IF get_user_by_username(table, username) # NoId
    THEN [table |-> table, user |-> NoId, error |-> <<"Username already registered">>]
    ELSE IF get_user_by_email(table, email) # NoId
    THEN [table |-> table, user |-> NoId, error |-> <<"Email already registered">>]
    ELSE [table |-> Append(table, NewUser(username, email, password)),
          user |-> Len(table) + 1, error |-> <<>>]

verify_password(plain_password, hashed_password) ==
    Hash(plain_password) = hashed_password

\* variant: a failed password check locks the account
authenticate_user_locking(table, username, password, t) ==
    LET u == get_user_by_username(table, username) IN
      IF u = NoId THEN [table |-> table, user |-> NoId]
      ELSE IF ~verify_password(password, table[u].hashed_password)
      THEN [table |-> [table EXCEPT ![u].is_active = FALSE], user |-> NoId]
      ELSE IF ~table[u].is_active THEN [table |-> table, user |-> NoId]
      ELSE [table |-> [table EXCEPT ![u].last_login = t], user |-> u]

authenticate_user(table, username, password, t) ==
    LET u == get_user_by_username(table, username) IN
      IF u = NoId THEN [table |-> table, user |-> NoId]
      ELSE IF ~verify_password(password, table[u].hashed_password)
      THEN [table |-> table, user |-> NoId]
      ELSE IF ~table[u].is_active THEN [table |-> table, user |-> NoId]
      ELSE [table |-> [table EXCEPT ![u].last_login = t], user |-> u]

\* t is in whole seconds; the token is issued at that instant
create_access_token_for_user(table, u, t) ==
    create_access_token([sub |-> table[u].username, user_id |-> u],
                        NoDelta, t * TicksPerSecond)

\* f"sk_{settings.secret_key[:16]}_{utcnow():%Y%m%d}": the key is a function
\* of the calendar day
generate_api_key(t) == ApiKeyOf(t \div SecondsPerDay)

\* the commit fails (error) when another row holds the key already: the
\* api_key column is unique
generate_api_key_for_user(table, u, t) ==
    LET api_key == generate_api_key(t) IN
      IF \E v \in DOMAIN table : v # u /\ table[v].api_key = api_key
      THEN [table |-> table, api_key |-> NoKey, error |-> TRUE]
      ELSE [table |-> [table EXCEPT
                         ![u].api_key = api_key,
                         ![u].api_key_expires_at = t + ApiKeyDays * SecondsPerDay],
            api_key |-> api_key, error |-> FALSE]

\* user_data holds the fields set in the UserUpdate body, NoName for unset
update_user(table, user_id, user_data) ==
    IF get_user_by_id(table, user_id) = NoId
    THEN [table |-> table, user |-> NoId, error |-> <<>>]
    ELSE LET n == get_user_by_username(table, user_data.username)
             e == get_user_by_email(table, user_data.email)
         IN  IF user_data.username # NoName /\ n # NoId /\ n # user_id
             THEN [table |-> table, user |-> NoId, error |-> <<"Username already taken">>]
             ELSE IF user_data.email # NoName /\ e # NoId /\ e # user_id
             THEN [table |-> table, user |-> NoId, error |-> <<"Email already taken">>]
             ELSE [table |-> [table EXCEPT
                                ![user_id].username =
                                   IF user_data.username # NoName
                                   THEN user_data.username ELSE @,
                                ![user_id].email =
                                   IF user_data.email # NoName
                                   THEN user_data.email ELSE @],
                   user |-> user_id, error |-> <<>>]

---------------------------------------------------------------------------
(* app/models/movie.py                                                     *)
(* popularity and vote_average are held in tenths, dates as day numbers.   *)
(* A score is an exact fraction [num, den]: every term is brought to the   *)
(* denominator 10 * FullVotes * 2 * DaysPerYear * DecayYears / 100 * b,    *)
(* b the budget when the financial bonus applies and 1 otherwise.          *)

Min(a, b) == IF a <= b THEN a ELSE b
Max(a, b) == IF a >= b THEN a ELSE b

\* `x or 0`
OrZero(x) == IF x = Unset THEN 0 ELSE x

\* the budget and revenue give a financial bonus
Financial(m) ==
    /\ m.budget # Unset /\ m.budget # 0
    /\ m.revenue # Unset /\ m.revenue # 0
    /\ m.budget > 0

\* the denominator for budget b
ScoreDen(b) == (2 * DaysPerYear * DecayYears * 100) * b

\* variant: the vote score is taken off the base score
popularity_score_minus(m, date) ==
    LET b == IF Financial(m) THEN m.budget ELSE 1
        decay == DaysPerYear * DecayYears
        base_score == OrZero(m.popularity) * (2 * decay * 10) * b
        vote_score == OrZero(m.vote_average)
                        * Min(OrZero(m.vote_count), FullVotes)
                        * ((2 * decay * 100) \div (10 * FullVotes)) * b
        recency == IF m.release_date # Unset
                   THEN Max(0, decay - (date - m.release_date)) * 100 * b
                   ELSE decay * 50 * b
        financial == IF Financial(m)
                     THEN 3 * Min(m.revenue - m.budget, FullRoi * m.budget)
                            * ((2 * decay * 100) \div (10 * FullRoi))
                     ELSE 0
    IN  [num |-> base_score - vote_score + recency + financial,
         den |-> ScoreDen(b)]

\* variant: a movie without a release date gets no recency bonus
popularity_score_undated(m, date) ==
    LET b == IF Financial(m) THEN m.budget ELSE 1
        decay == DaysPerYear * DecayYears
        base_score == OrZero(m.popularity) * (2 * decay * 10) * b
        vote_score == OrZero(m.vote_average)
                        * Min(OrZero(m.vote_count), FullVotes)
                        * ((2 * decay * 100) \div (10 * FullVotes)) * b
        recency == IF m.release_date # Unset
                   THEN Max(0, decay - (date - m.release_date)) * 100 * b
                   ELSE 0
        financial == IF Financial(m)
                     THEN 3 * Min(m.revenue - m.budget, FullRoi * m.budget)
                            * ((2 * decay * 100) \div (10 * FullRoi))
                     ELSE 0
    IN  [num |-> base_score + vote_score + recency + financial,
         den |-> ScoreDen(b)]

\* Movie.popularity_score read on day `date`
popularity_score(m, date) ==
    LET b == IF Financial(m) THEN m.budget ELSE 1
        decay == DaysPerYear * DecayYears
        \* (popularity or 0.0)
        base_score == OrZero(m.popularity) * (2 * decay * 10) * b
        \* (vote_average or 0.0) * min((vote_count or 0) / 1000, 1.0)
        vote_score == OrZero(m.vote_average)
                        * Min(OrZero(m.vote_count), FullVotes)
                        * ((2 * decay * 100) \div (10 * FullVotes)) * b
        \* max(0, 1 - days / 365 / 10) * 0.5, or 0.5 * 0.5 without a date
        recency == IF m.release_date # Unset
                   THEN Max(0, decay - (date - m.release_date)) * 100 * b
                   ELSE decay * 50 * b
        \* min((revenue - budget) / budget / 10, 1.0) * 0.3
        financial == IF Financial(m)
                     THEN 3 * Min(m.revenue - m.budget, FullRoi * m.budget)
                            * ((2 * decay * 100) \div (10 * FullRoi))
                     ELSE 0
    IN  [num |-> base_score + vote_score + recency + financial,
         den |-> ScoreDen(b)]

\* a <= b for scores (both denominators are multiples of ScoreDen(1))
ScoreLeq(a, b) ==
    a.num * (b.den \div ScoreDen(1)) <= b.num * (a.den \div ScoreDen(1))

---------------------------------------------------------------------------
(* app/api/deps.py *)

\* variant: the user lookup sits outside the try block
get_current_user_unguarded(credentials, table, t, db) ==
    IF credentials.kind = "none" THEN NoUser
    ELSE LET payload == verify_token(credentials, t) IN
         IF ~payload.ok THEN NoUser
         ELSE IF payload.sub = NoName \/ payload.user_id = NoId THEN NoUser
         ELSE IF db = "error" THEN Raised
         ELSE LET u == get_user_by_id(table, payload.user_id) IN
              IF u = NoId \/ ~table[u].is_active THEN NoUser
              ELSE Snapshot(table, u)

\* db = "error" stands for the store raising during the lookup
get_current_user(credentials, table, t, db) ==
    IF credentials.kind = "none" THEN NoUser
    ELSE LET payload == verify_token(credentials, t) IN
         IF ~payload.ok THEN NoUser
         ELSE IF payload.sub = NoName \/ payload.user_id = NoId THEN NoUser
         ELSE IF db = "error" THEN NoUser
         ELSE LET u == get_user_by_id(table, payload.user_id) IN
              IF u = NoId \/ ~table[u].is_active THEN NoUser
              ELSE Snapshot(table, u)

verify_api_key(api_key, table, t, db) ==
    IF api_key = NoKey THEN NoUser
    ELSE IF db = "error" THEN NoUser
    ELSE LET u == get_user_by_api_key(table, api_key) IN
         IF u # NoId /\ is_api_key_valid(table[u], t) /\ table[u].is_active
         THEN Snapshot(table, u)
         ELSE NoUser

Response(code, hdrs) == [status |-> code, headers |-> hdrs]
Passed == Response(0, {})

get_current_active_user(current_user) ==
    IF current_user = NoUser
    THEN [user |-> NoUser,
          error |-> Response(401, {<<"WWW-Authenticate", "Bearer">>})]
    ELSE IF ~current_user.is_active
         THEN [user |-> NoUser, error |-> Response(400, {})]
         ELSE [user |-> current_user, error |-> Passed]

\* variant: the API-key identity is tried first
require_auth_key_first(current_user, api_user) ==
    IF api_user # NoUser THEN [user |-> api_user, error |-> Passed]
    ELSE IF current_user # NoUser THEN [user |-> current_user, error |-> Passed]
    ELSE [user |-> NoUser,
          error |-> Response(401, {<<"WWW-Authenticate", "Bearer">>})]

\* variant: the rejection is a 403 without challenge
require_auth_forbidden(current_user, api_user) ==
    IF current_user # NoUser THEN [user |-> current_user, error |-> Passed]
    ELSE IF api_user # NoUser THEN [user |-> api_user, error |-> Passed]
    ELSE [user |-> NoUser, error |-> Response(403, {})]

\* variant: only the bearer-token identity authenticates
require_auth_token_only(current_user, api_user) ==
    IF current_user # NoUser THEN [user |-> current_user, error |-> Passed]
    ELSE [user |-> NoUser,
          error |-> Response(401, {<<"WWW-Authenticate", "Bearer">>})]

require_auth(current_user, api_user) ==
    IF current_user # NoUser THEN [user |-> current_user, error |-> Passed]
    ELSE IF api_user # NoUser THEN [user |-> api_user, error |-> Passed]
    ELSE [user |-> NoUser,
          error |-> Response(401, {<<"WWW-Authenticate", "Bearer">>})]

\* variant: optional_auth rejects like require_auth
optional_auth_rejecting(current_user, api_user) ==
    IF current_user # NoUser THEN [user |-> current_user, error |-> Passed]
    ELSE IF api_user # NoUser THEN [user |-> api_user, error |-> Passed]
    ELSE [user |-> NoUser,
          error |-> Response(401, {<<"WWW-Authenticate", "Bearer">>})]

optional_auth(current_user, api_user) ==
    IF current_user # NoUser THEN [user |-> current_user, error |-> Passed]
    ELSE IF api_user # NoUser THEN [user |-> api_user, error |-> Passed]
    ELSE [user |-> NoUser, error |-> Passed]

\* variant: the API-key identity names the bucket before the token identity
RateLimitKey_key_first(current_user, api_user, host) ==
    IF api_user # NoUser THEN <<"api", api_user.id>>
    ELSE IF current_user # NoUser THEN <<"user", current_user.id>>
    ELSE <<"ip", host>>

\* the identifier rate_limit_middleware charges
\* variant: token and API-key traffic of an identity share one counter
RateLimitKey_shared(current_user, api_user, host) ==
    IF current_user # NoUser THEN <<"user", current_user.id>>
    ELSE IF api_user # NoUser THEN <<"user", api_user.id>>
    ELSE <<"ip", host>>

\* variant: every request is charged to the caller's address
RateLimitKey_by_address(current_user, api_user, host) == <<"ip", host>>

RateLimitKey(current_user, api_user, host) ==
    IF current_user # NoUser THEN <<"user", current_user.id>>
    ELSE IF api_user # NoUser THEN <<"api", api_user.id>>
    ELSE <<"ip", host>>

---------------------------------------------------------------------------
(* app/core/cache.py *)

\* redis_client is the module global: FALSE stands for None.  up tells whether
\* the counter store answers during this call.
get_redis_client(client, up) ==
    IF ~client
    THEN IF up THEN [client |-> TRUE, raised |-> FALSE]
               ELSE [client |-> FALSE, raised |-> TRUE]
    ELSE [client |-> client, raised |-> FALSE]

\* a key whose expiry instant has been reached no longer exists in the store
Live(store, key, t) == store[key].count > 0 /\ t < store[key].expire_at

\* variant: the expiry is set only when the key is created (fixed window)
PipelineExecute_expire_once(store, key, expire, t) ==
    LET n == IF Live(store, key, t) THEN store[key].count + 1 ELSE 1
    IN  [results |-> <<n, 1>>,
         store |-> [store EXCEPT ![key] =
                      [count |-> n,
                       expire_at |-> IF n = 1 THEN t + expire
                                     ELSE store[key].expire_at]]]

\* pipe.incr(key); pipe.expire(key, expire); pipe.execute(): one transaction,
\* replies in command order
PipelineExecute(store, key, expire, t) ==
    LET n == IF Live(store, key, t) THEN store[key].count + 1 ELSE 1
    IN  [results |-> <<n, 1>>,
         store |-> [store EXCEPT ![key] = [count |-> n, expire_at |-> t + expire]]]

\* variant: the reply of EXPIRE is returned instead of the reply of INCR
increment_rate_limit_expire_reply(store, client, key, expire, t, up) ==
    LET c == get_redis_client(client, up) IN
    IF c.raised \/ ~up
    THEN [value |-> 0, store |-> store, client |-> c.client]
    ELSE LET p == PipelineExecute(store, key, expire, t)
         IN  [value |-> p.results[2], store |-> p.store, client |-> c.client]

\* variant: a failing store counts as over the limit (fail closed)
increment_rate_limit_fail_closed(store, client, key, expire, t, up) ==
    LET c == get_redis_client(client, up) IN
    IF c.raised \/ ~up
    THEN [value |-> rate_limit_per_minute + 1, store |-> store, client |-> c.client]
    ELSE LET p == PipelineExecute(store, key, expire, t)
         IN  [value |-> p.results[1], store |-> p.store, client |-> c.client]

increment_rate_limit(store, client, key, expire, t, up) ==
    LET c == get_redis_client(client, up) IN
    IF c.raised \/ ~up
    THEN [value |-> 0, store |-> store, client |-> c.client]
    ELSE LET p == PipelineExecute(store, key, expire, t)
         IN  [value |-> p.results[1], store |-> p.store, client |-> c.client]

\* variant: the request that reaches the limit is rejected already
RateLimitDecision_at_limit(current_count) ==
    IF current_count >= rate_limit_per_minute
    THEN Response(429, {<<"Retry-After", "60">>})
    ELSE Passed

\* the decision of rate_limit_middleware on the returned count
RateLimitDecision(current_count) ==
    IF current_count > rate_limit_per_minute
    THEN Response(429, {<<"Retry-After", "60">>})
    ELSE Passed

---------------------------------------------------------------------------
(* app/services/movie_service.py                                           *)
(*                                                                         *)
(* The movies table is a function from the ids that have a row to rows.    *)
(* A row holds the columns the service reads: the scored columns, genres   *)
(* (the comma-separated string as the sequence of its names, None and ""   *)
(* as the empty sequence), director ("" for None), adult and created_at.   *)
(* The cache is a set of entries [key, value]; entries outlive the calls   *)
(* modelled here (expiry is 1800 s or more).  A call's outcome is a        *)
(* record: result, the rows its own store query returned, the number of    *)
(* store queries made, the exception that left the method ("" for none)    *)
(* and the cache and module global after the call.                         *)

NoRow == [id |-> NoId]
NoValue == <<>>

\* the value under key, None when the key is absent or the cache store does
\* not answer (cache.py:37-45)
get_cache(store_cache, key, up) ==
    IF up /\ \E e \in store_cache : e.key = key
    THEN (CHOOSE e \in store_cache : e.key = key).value
    ELSE NoValue

\* SETEX key value; a store that does not answer is logged and ignored
\* (cache.py:48-56)
set_cache(store_cache, key, value, up) ==
    IF up
    THEN {e \in store_cache : e.key # key} \cup {[key |-> key, value |-> value]}
    ELSE store_cache

\* movie.__dict__ of a mapped instance: its column attributes and the
\* instrumentation state SQLAlchemy keeps in the instance dictionary
InstanceDict(row) == [_sa_instance_state |-> "InstanceState"] @@ row

\* the columns of type DateTime
DateTimeColumns == {"release_date", "created_at", "updated_at"}

\* json.dumps(d) without a default hook encodes str, int, float, bool, None,
\* list and dict only: an InstanceState or a datetime raises TypeError
Encodable(d) ==
    /\ "_sa_instance_state" \notin DOMAIN d
    /\ \A c \in DateTimeColumns \cap DOMAIN d : d[c] = Unset

json_dumps(d) == <<"json", d>>
json_loads(text) == text[2]

\* variant: json.dumps falls back to str() for what it cannot encode
get_movie_by_id_default_str(table, store_cache, client, movie_id, up) ==
    LET cache_key == <<"movie", movie_id>>
        c == get_redis_client(client, up)
        cached == get_cache(store_cache, cache_key, up)
        found == IF movie_id \in DOMAIN table THEN table[movie_id] ELSE NoRow
    IN  IF cached # NoValue
        THEN [result |-> json_loads(cached), rows |-> <<>>, queries |-> 0, own |-> 0,
              raised |-> "", hit |-> TRUE, cache |-> store_cache,
              client |-> c.client]
        ELSE [result |-> found, rows |-> <<>>, queries |-> 1, own |-> 1, raised |-> "",
              hit |-> FALSE,
              cache |-> IF found # NoRow
                        THEN set_cache(store_cache, cache_key,
                                       json_dumps(InstanceDict(found)), up)
                        ELSE store_cache,
              client |-> c.client]

\* MovieService.get_movie_by_id
get_movie_by_id(table, store_cache, client, movie_id, up) ==
    LET cache_key == <<"movie", movie_id>>
        c == get_redis_client(client, up)
        cached == get_cache(store_cache, cache_key, up)
        \* scalar_one_or_none() of the query by primary key
        found == IF movie_id \in DOMAIN table THEN table[movie_id] ELSE NoRow
    IN  IF cached # NoValue
        THEN \* Movie(**json.loads(cached)): a new object, not in the session
             [result |-> json_loads(cached), rows |-> <<>>, queries |-> 0, own |-> 0,
              raised |-> "", hit |-> TRUE, cache |-> store_cache,
              client |-> c.client]
        ELSE IF found = NoRow
        THEN [result |-> NoRow, rows |-> <<>>, queries |-> 1, own |-> 1, raised |-> "",
              hit |-> FALSE, cache |-> store_cache, client |-> c.client]
        ELSE IF ~Encodable(InstanceDict(found))
        THEN \* the argument of set_cache is evaluated before the call
             [result |-> NoRow, rows |-> <<>>, queries |-> 1, own |-> 1,
              raised |-> "TypeError", hit |-> FALSE, cache |-> store_cache,
              client |-> c.client]
        ELSE [result |-> found, rows |-> <<>>, queries |-> 1, own |-> 1, raised |-> "",
              hit |-> FALSE,
              cache |-> set_cache(store_cache, cache_key,
                                  json_dumps(InstanceDict(found)), up),
              client |-> c.client]

\* Movie.genres.ilike(f"%{genre}%"): the name occurs in the column
ilike(names, name) == \E k \in 1 .. Len(names) : names[k] = name

\* the sequences over the set S without repetition
Orderings(S) ==
    {o \in [1 .. Cardinality(S) -> S] :
       \A i, j \in 1 .. Cardinality(S) : i # j => o[i] # o[j]}

\* .order_by(desc(Movie.popularity)).limit(limit) over the rows with ids in
\* S: every result the store may return (rows of equal popularity come in
\* any order)
OrderByPopularity(table, S, limit) ==
    {[k \in 1 .. Min(limit, Cardinality(S)) |-> table[o[k]]] :
       o \in {q \in Orderings(S) :
                \A i, j \in 1 .. Cardinality(S) :
                   i < j => table[q[i]].popularity >= table[q[j]].popularity}}

\* MovieRecommendation(movie=movie, score=movie.popularity_score, reason=reason)
\* for each movie of the query result, in its order
Recommendations(rows, date, reason) ==
    [k \in 1 .. Len(rows) |->
       [movie |-> rows[k], score |-> popularity_score(rows[k], date),
        reason |-> reason]]

\* MovieService.get_recommendations_by_director: every outcome the call can
\* have
get_recommendations_by_director(table, director, limit, date) ==
    {[result |-> Recommendations(rows, date, <<"Directed by", director>>),
      rows |-> rows, queries |-> 1, own |-> 1, raised |-> "", hit |-> FALSE] :
       rows \in OrderByPopularity(table,
                  {i \in DOMAIN table : /\ table[i].director = director
                                        /\ ~table[i].adult}, limit)}

\* MovieService.get_recommendations_by_genre: every outcome the call can have
get_recommendations_by_genre(table, store_cache, client, genre, limit, date, up) ==
    LET cache_key == <<"genre_recommendations", genre, limit>>
        c == get_redis_client(client, up)
        cached == get_cache(store_cache, cache_key, up)
        reason == <<"Popular", genre, "movie with high ratings">>
    IN  IF cached # NoValue
        THEN {[result |-> json_loads(cached), rows |-> <<>>, queries |-> 0,
               own |-> 0, raised |-> "", hit |-> TRUE, cache |-> store_cache,
               client |-> c.client]}
        ELSE {LET recommendations == Recommendations(rows, date, reason) IN
              IF recommendations = <<>>
              THEN [result |-> recommendations, rows |-> rows, queries |-> 1,
                    own |-> 1, raised |-> "", hit |-> FALSE,
                    cache |-> store_cache, client |-> c.client]
              ELSE IF \E k \in 1 .. Len(recommendations) :
                         \* r.dict() holds the movie's created_at
                         ~Encodable(recommendations[k].movie)
              THEN [result |-> <<>>, rows |-> rows, queries |-> 1, own |-> 1,
                    raised |-> "TypeError", hit |-> FALSE,
                    cache |-> store_cache, client |-> c.client]
              ELSE [result |-> recommendations, rows |-> rows, queries |-> 1,
                    own |-> 1, raised |-> "", hit |-> FALSE,
                    cache |-> set_cache(store_cache, cache_key,
                                        json_dumps(recommendations), up),
                    client |-> c.client] :
                rows \in OrderByPopularity(table,
                           {i \in DOMAIN table :
                              /\ ilike(table[i].genres, genre)
                              /\ ~table[i].adult
                              /\ table[i].vote_count >= 100}, limit)}

\* MovieService.get_similar_movies: every outcome the call can have
get_similar_movies(table, store_cache, client, movie_id, limit, date, up) ==
    LET g == get_movie_by_id(table, store_cache, client, movie_id, up)
        source == g.result
        none == [result |-> <<>>, rows |-> <<>>, queries |-> g.queries,
                 own |-> 0, raised |-> g.raised, hit |-> g.hit,
                 cache |-> g.cache, client |-> g.client]
    IN  IF g.raised # "" \/ source = NoRow
        THEN {none}
        ELSE IF source.genres # <<>>
        THEN {[result |-> Recommendations(rows, date,
                              <<"Similar to", source.id, "(same genres)">>),
               rows |-> rows, queries |-> g.queries + 1, own |-> 1,
               raised |-> "", hit |-> g.hit, cache |-> g.cache,
               client |-> g.client] :
                rows \in OrderByPopularity(table,
                           {i \in DOMAIN table :
                              /\ \E k \in 1 .. Min(3, Len(source.genres)) :
                                    ilike(table[i].genres, source.genres[k])
                              /\ i # movie_id
                              /\ ~table[i].adult}, limit)}
        ELSE {none}

\* MovieService.update_movie; movie_data holds the fields set in the body
update_movie(table, store_cache, client, movie_id, movie_data, up) ==
    LET g == get_movie_by_id(table, store_cache, client, movie_id, up)
        found == g.result
        outcome == [result |-> NoRow, rows |-> <<>>, queries |-> g.queries,
                    own |-> 0, raised |-> g.raised, hit |-> g.hit,
                    cache |-> g.cache, client |-> g.client, table |-> table]
        updated == [f \in DOMAIN found |->
                      IF f \in DOMAIN movie_data THEN movie_data[f]
                      ELSE found[f]]
    IN  IF g.raised # "" \/ found = NoRow
        THEN outcome
        ELSE IF g.hit
        THEN \* the object rebuilt from the cache is not in the session: the
             \* commit writes nothing and refresh() rejects the object
             [outcome EXCEPT !.raised = "InvalidRequestError"]
        ELSE \* _clear_movie_caches deletes nothing
             [outcome EXCEPT !.result = updated,
                             !.table = [table EXCEPT ![movie_id] = updated]]

---------------------------------------------------------------------------
(* One request at a time through the dependency chain of an endpoint; the  *)
(* clock and the counter store move between its steps.  A request record   *)
(* holds the request's headers and the outcome of the two store lookups    *)
(* (db_user, db_key) until its auth dependency has returned.               *)

IdleReq == [pc |-> "idle", credentials |-> NoCredentials, api_key |-> NoKey,
            db_user |-> "unused", db_key |-> "unused",
            dep |-> "none", current_user |-> NoUser, api_user |-> NoUser,
            user |-> NoUser, host |-> NoId, key |-> <<>>, current_count |-> 0,
            store |-> "unused", response |-> Passed]

\* an exception that leaves a dependency is answered with 500
Unhandled(value) == IF value = Raised THEN Response(500, {}) ELSE Passed

\* a call of rate_limit_middleware in flight (concurrent requests, below)
Slots == 1 .. MaxConc
IdleCall == [pc |-> "idle", key |-> <<>>, current_count |-> 0,
             store |-> "unused", response |-> Passed]

\* no token issued yet, no verify_token call made at this instant
NotIssued == [token |-> NoCredentials, at |-> NoTime, expires_delta |-> NoDelta]
NotVerified == [token |-> NoCredentials, result |-> NoPayload]

\* nothing outside the request pipeline has happened
NoCall == [endpoint |-> "none", credentials |-> NoCredentials, user |-> NoId,
           key |-> <<>>, response |-> Passed, access_token |-> NoCredentials,
           api_key |-> NoKey]

\* no movie service method has been called
NoAnswer == [op |-> "none", arg |-> 0, limit |-> 0, rows |-> <<>>,
             queries |-> 0, own |-> 0, raised |-> "", hit |-> FALSE,
             result |-> <<>>]

\* a UserService call not yet made
NoTxn == [pc |-> "idle", op |-> "none", user_id |-> NoId, username |-> NoName,
          email |-> NoName, error |-> <<>>]

\* POST /recommendations has not been called
NoReply == [request |-> <<>>, status |-> 0, recommendations |-> <<>>,
            total_recommendations |-> 0]

\* nothing has happened in the components modelled apart
ExtraIdle ==
    /\ MOVIES_DATABASE = <<>>
    /\ reply = NoReply
    /\ txn = [r \in Slots |-> NoTxn]
    /\ movies = <<>>
    /\ cache = {}
    /\ answer = NoAnswer

AsideIdle ==
    /\ ExtraIdle
    /\ clock = 0
    /\ issued = NotIssued
    /\ verified = NotVerified
    /\ tokens = {}
    /\ calls = [u \in UserIds |-> 0]
    /\ last = NoCall
    /\ handled = 0
    /\ movie = NoMovie
    /\ today = 0

\* the users table: every row exists and holds an API key; the last user may
\* be inactive, the key of user 1 may carry an expiry
InitialUsers ==
    {[u \in UserIds |->
        [username |-> Username(u),
         email |-> Email(u),
         hashed_password |-> Hash(u),
         is_active |-> IF u = MaxUsers THEN active ELSE TRUE,
         api_key |-> ApiKeyOf(u),
         api_key_expires_at |-> IF u = 1 THEN expiry ELSE NoTime,
         last_login |-> NoTime]] :
       active \in BOOLEAN, expiry \in {NoTime, KeyExp}}

Init ==
    /\ now = 0
    /\ users \in InitialUsers
    /\ rl = [k \in RateKeys |-> NoCounter]
    /\ redis_client = FALSE
    /\ req = IdleReq
    /\ served = 0
    /\ conc = [r \in Slots |-> IdleCall]
    /\ AsideIdle

\* a client sends a request carrying bearer credentials c (or none)
Arrive(c) ==
    /\ req.pc \in {"idle", "done"}
    /\ served < MaxRequests
    /\ req' = [IdleReq EXCEPT !.pc = "received", !.credentials = c]
    /\ served' = served + 1
    /\ UNCHANGED <<now, users, rl, redis_client, conc, aside>>

\* Depends(get_current_user)
ResolveCurrentUser(db) ==
    /\ req.pc = "received"
    /\ LET u == get_current_user(req.credentials, users, now, db) IN
         req' = [req EXCEPT !.pc = IF u = Raised THEN "done" ELSE "token_done",
                            !.db_user = db, !.current_user = u,
                            !.response = Unhandled(u)]
    /\ UNCHANGED <<now, users, rl, redis_client, served, conc, aside>>

\* Depends(verify_api_key); k is the request's X-API-Key header
ResolveApiUser(k, db) ==
    /\ req.pc = "token_done"
    /\ LET u == verify_api_key(k, users, now, db) IN
         req' = [req EXCEPT !.pc = IF u = Raised THEN "done" ELSE "resolved",
                            !.api_key = k, !.db_key = db, !.api_user = u,
                            !.response = Unhandled(u)]
    /\ UNCHANGED <<now, users, rl, redis_client, served, conc, aside>>

AuthResult(dep, current_user, api_user) ==
    CASE dep = "require_auth" -> require_auth(current_user, api_user)
      [] dep = "optional_auth" -> optional_auth(current_user, api_user)
      [] dep = "get_current_active_user" -> get_current_active_user(current_user)
      [] OTHER -> [user |-> NoUser, error |-> Passed]

\* the auth dependency d of the endpoint, declared before
\* rate_limit_middleware: an HTTPException ends the request
AuthDependency(d) ==
    /\ req.pc = "resolved"
    /\ LET a == AuthResult(d, req.current_user, req.api_user) IN
         req' = [req EXCEPT !.pc = IF a.error = Passed THEN "authed" ELSE "done",
                            !.credentials = NoCredentials, !.api_key = NoKey,
                            !.db_user = "unused", !.db_key = "unused", !.dep = d,
                            !.user = a.user, !.response = a.error]
    /\ UNCHANGED <<now, users, rl, redis_client, served, conc, aside>>

\* Depends(rate_limit_middleware); h is request.client.host
RateLimit(h, up) ==
    /\ req.pc = "authed"
    /\ LET key == RateLimitKey(req.current_user, req.api_user, h)
           inc == increment_rate_limit(rl, redis_client, key, RateWindow, now, up)
           out == RateLimitDecision(inc.value)
       IN  /\ rl' = inc.store
           /\ redis_client' = inc.client
           /\ req' = [req EXCEPT !.pc = IF out = Passed THEN "admitted" ELSE "done",
                                 !.host = h, !.key = key,
                                 !.current_count = inc.value,
                                 !.store = IF up THEN "ok" ELSE "error",
                                 !.response = out]
    /\ UNCHANGED <<now, users, served, conc, aside>>

\* the endpoint body runs and answers
Endpoint ==
    /\ req.pc = "admitted"
    /\ req' = [req EXCEPT !.pc = "done", !.response = Response(200, {})]
    /\ UNCHANGED <<now, users, rl, redis_client, served, conc, aside>>

\* time passes (a key of the counter store is gone once its expiry instant
\* is reached: Live)
Tick ==
    /\ now + TimeStep <= MaxTime
    /\ now' = now + TimeStep
    /\ UNCHANGED <<users, rl, redis_client, req, served, conc, aside>>

Next ==
    \/ \E c \in Credentials : Arrive(c)
    \/ \E db \in {"ok", "error"} : ResolveCurrentUser(db)
    \/ \E k \in ApiKeyHeaders, db \in {"ok", "error"} : ResolveApiUser(k, db)
    \/ \E d \in AuthDeps : AuthDependency(d)
    \/ \E h \in Hosts, up \in BOOLEAN : RateLimit(h, up)
    \/ Endpoint
    \/ Tick

Spec == Init /\ [][Next]_vars

---------------------------------------------------------------------------
(* Concurrent requests inside rate_limit_middleware.  Each call derives    *)
(* its key from its resolved identities, queues INCR and EXPIRE on a       *)
(* pipeline and awaits pipe.execute(); calls interleave at that await and  *)
(* the store runs each pipeline as one transaction.  No time passes.       *)

\* identities the dependencies can have resolved for a request
ResolvedUsers == {NoUser} \cup {[id |-> u, is_active |-> TRUE] : u \in UserIds}

\* what the store holds for a key when the burst begins: the keys of user 1
\* have been charged once within the window, the others are fresh
InitialCount(k) == IF k[1] # "ip" /\ k[2] = 1 THEN 1 ELSE 0

InitConc ==
    /\ now = 0
    /\ users \in InitialUsers
    /\ rl = [k \in RateKeys |->
               IF InitialCount(k) = 0 THEN NoCounter
               ELSE [count |-> InitialCount(k), expire_at |-> RateWindow]]
    /\ redis_client \in BOOLEAN
    /\ req = IdleReq
    /\ served = 0
    /\ conc = [r \in Slots |-> IdleCall]
    /\ AsideIdle

\* lines 99-104 of rate_limit_middleware and the queuing of the pipeline
Enter(r, current_user, api_user, h) ==
    /\ conc[r].pc = "idle"
    /\ conc' = [conc EXCEPT ![r] =
                  [IdleCall EXCEPT !.pc = "queued",
                                   !.key = RateLimitKey(current_user, api_user, h)]]
    /\ UNCHANGED <<now, users, rl, redis_client, req, served, aside>>

\* await pipe.execute() returns (or raises) and the middleware decides
Execute(r, up) ==
    /\ conc[r].pc = "queued"
    /\ LET inc == increment_rate_limit(rl, redis_client, conc[r].key,
                                       RateWindow, now, up)
       IN  /\ rl' = inc.store
           /\ redis_client' = inc.client
           /\ conc' = [conc EXCEPT ![r] =
                         [@ EXCEPT !.pc = "done", !.current_count = inc.value,
                                   !.store = IF up THEN "ok" ELSE "error",
                                   !.response = RateLimitDecision(inc.value)]]
    /\ UNCHANGED <<now, users, req, served, aside>>

NextConc ==
    \/ \E r \in Slots, cu \in ResolvedUsers, au \in ResolvedUsers, h \in Hosts :
         Enter(r, cu, au, h)
    \/ \E r \in Slots, up \in BOOLEAN : Execute(r, up)

SpecConc == InitConc /\ [][NextConc]_vars

---------------------------------------------------------------------------
(* Token issue and verification.  The clock counts ticks finer than the    *)
(* whole seconds a token carries; access tokens are created and presented  *)
(* for verification at any tick.                                           *)

MaxClock == (access_token_expire_minutes * 60 + MaxOverrun) * TicksPerSecond

\* expires_delta values handed to create_access_token
Deltas == {NoDelta} \cup (0 .. MaxDelta)

\* what a client may present once a token has been issued: that token, a copy
\* whose signature does not verify, or a string that is no token
Presentable ==
    IF issued = NotIssued THEN {Malformed}
    ELSE {issued.token, [issued.token EXCEPT !.signed = FALSE], Malformed}

\* the users table plays no part but for the names that go into the claims
InitToken ==
    /\ now = 0
    /\ users \in {t \in InitialUsers : /\ t[MaxUsers].is_active
                                       /\ t[1].api_key_expires_at = NoTime}
    /\ rl = [k \in RateKeys |-> NoCounter]
    /\ redis_client = FALSE
    /\ req = IdleReq
    /\ served = 0
    /\ conc = [r \in Slots |-> IdleCall]
    /\ AsideIdle

\* create_access_token_for_user(u) (delta = NoDelta) or a direct call of
\* create_access_token with an explicit lifetime
IssueToken(u, delta) ==
    /\ issued = NotIssued
    /\ clock <= MaxIssueTime * TicksPerSecond
    /\ issued' = [token |-> create_access_token(
                               [sub |-> users[u].username, user_id |-> u],
                               delta, clock),
                  at |-> clock, expires_delta |-> delta]
    /\ verified' = NotVerified
    /\ UNCHANGED <<beside, clock>>

\* verify_token(c), called at the current instant
VerifyToken(c) ==
    /\ verified' = [token |-> c, result |-> verify_token(c, timegm(clock))]
    /\ UNCHANGED <<beside, clock, issued>>

\* time passes; the result of a call belongs to the instant of the call
TickClock ==
    /\ clock < MaxClock
    /\ clock' = clock + 1
    /\ verified' = NotVerified
    /\ UNCHANGED <<beside, issued>>

NextToken ==
    \/ \E u \in UserIds, delta \in Deltas : IssueToken(u, delta)
    \/ \E c \in Presentable : VerifyToken(c)
    \/ TickClock

SpecToken == InitToken /\ [][NextToken]_vars

---------------------------------------------------------------------------
(* The service endpoints of api/v1/endpoints/auth.py, one request handled  *)
(* at a time from its dependencies to its answer.  Clients present the     *)
(* bearer tokens they were issued and the API keys stored for users; the   *)
(* users table starts empty or with every account registered.  The         *)
(* requests arrive within one second and the counter store answers; an     *)
(* registration carries no credentials.                                    *)

InitialAccounts ==
    {<<>>} \cup
    {[u \in UserIds |->
        [NewUser(Username(u), Email(u), u) EXCEPT
           !.is_active = IF u = MaxUsers THEN active ELSE TRUE]] :
       active \in BOOLEAN}

\* the addresses the clients call from (the first and one more), and the keys
\* the limiter can come to use
Callers == {1, MaxHosts + 1}
ClientKeys == RateKeys \cup ({"ip"} \X Callers)

InitSvc ==
    /\ now = 0
    /\ users \in InitialAccounts
    /\ rl = [k \in ClientKeys |-> NoCounter]
    /\ redis_client = FALSE
    /\ req = IdleReq
    /\ served = 0
    /\ conc = [r \in Slots |-> IdleCall]
    /\ AsideIdle

\* Authorization and X-API-Key headers a client can send
Bearers == {NoCredentials} \cup tokens
KnownKeys == {NoKey} \cup {users[u].api_key : u \in DOMAIN users}

\* the dependencies of an endpoint in the order it declares them: require_auth
\* where the endpoint has it (auth), then rate_limit_middleware; error is the
\* HTTPException that ends the request, Passed when the body is reached
Dependencies(auth, c, k, h) ==
    LET cu == get_current_user(c, users, now, "ok")
        au == verify_api_key(k, users, now, "ok")
        a == IF auth THEN require_auth(cu, au)
             ELSE [user |-> NoUser, error |-> Passed]
        key == RateLimitKey(cu, au, h)
        inc == increment_rate_limit(rl, redis_client, key, RateWindow, now, TRUE)
    IN  IF a.error # Passed
        THEN [user |-> NoId, key |-> <<>>, error |-> a.error,
              store |-> rl, client |-> redis_client]
        ELSE [user |-> a.user.id, key |-> key,
              error |-> RateLimitDecision(inc.value),
              store |-> inc.store, client |-> inc.client]

\* the request is answered; a request that carried a user's token counts as
\* a call made with it
Answered(e, c, d, response, token, api_key) ==
    /\ last' = [endpoint |-> e, credentials |-> c, user |-> d.user,
                key |-> d.key, response |-> response,
                access_token |-> token, api_key |-> api_key]
    /\ calls' = IF c.kind = "jwt" /\ c.user_id \in UserIds
                THEN [calls EXCEPT ![c.user_id] = @ + 1] ELSE calls
    /\ handled' = handled + 1
    /\ rl' = d.store
    /\ redis_client' = d.client

\* POST /register
Register(n, m, h) ==
    /\ handled < MaxCalls
    /\ \E d \in {Dependencies(FALSE, NoCredentials, NoKey, h)} :
       LET c == NoCredentials
           r == create_user(users, Username(n), Email(m), n)
       IN  /\ r.error = <<>> => Len(users) < MaxUsers
           /\ users' = IF d.error = Passed THEN r.table ELSE users
           /\ Answered("register", c, d,
                       IF d.error # Passed THEN d.error
                       ELSE IF r.error # <<>> THEN Response(400, {})
                       ELSE Response(200, {}),
                       NoCredentials, NoKey)
    /\ UNCHANGED <<now, tokens, apart>>

\* POST /login
Login(n, password, c, h) ==
    /\ handled < MaxCalls
    /\ \E d \in {Dependencies(FALSE, c, NoKey, h)} :
       LET a == authenticate_user(users, Username(n), password, now)
           ok == d.error = Passed /\ a.user # NoId
           token == IF ok THEN create_access_token_for_user(a.table, a.user, now)
                    ELSE NoCredentials
       IN  /\ users' = IF d.error = Passed THEN a.table ELSE users
           /\ tokens' = IF ok THEN tokens \cup {token} ELSE tokens
           /\ Answered("login", c, d,
                       IF d.error # Passed THEN d.error
                       ELSE IF a.user = NoId
                       THEN Response(401, {<<"WWW-Authenticate", "Bearer">>})
                       ELSE Response(200, {}),
                       token, NoKey)
    /\ UNCHANGED <<now, apart>>

\* POST /api-key
GenerateApiKey(c, k, h) ==
    /\ handled < MaxCalls
    /\ \E d \in {Dependencies(TRUE, c, k, h)} :
       LET g == IF d.error = Passed
                THEN generate_api_key_for_user(users, d.user, now)
                ELSE [table |-> users, api_key |-> NoKey, error |-> FALSE]
       IN  /\ users' = g.table
           /\ Answered("api-key", c, d,
                       IF d.error # Passed THEN d.error
                       ELSE IF g.error THEN Response(500, {})
                       ELSE Response(200, {}),
                       NoCredentials, g.api_key)
    /\ UNCHANGED <<now, tokens, apart>>

\* GET /me
Me(c, k, h) ==
    /\ handled < MaxCalls
    /\ \E d \in {Dependencies(TRUE, c, k, h)} :
         Answered("me", c, d,
                  IF d.error # Passed THEN d.error ELSE Response(200, {}),
                  NoCredentials, NoKey)
    /\ UNCHANGED <<now, users, tokens, apart>>

\* POST /logout
Logout(c, h) ==
    /\ handled < MaxCalls
    /\ \E d \in {Dependencies(FALSE, c, NoKey, h)} :
         Answered("logout", c, d,
                  IF d.error # Passed THEN d.error ELSE Response(200, {}),
                  NoCredentials, NoKey)
    /\ UNCHANGED <<now, users, tokens, apart>>

\* bodies of a user update
UserUpdates ==
    {[username |-> Username(MaxUsers + 1), email |-> NoName],
     [username |-> Username(1), email |-> NoName],
     [username |-> NoName, email |-> Email(1)]}

\* UserService.update_user, called for user u
UpdateUser(u, user_data) ==
    /\ handled < MaxCalls
    /\ LET r == update_user(users, u, user_data) IN
         /\ users' = r.table
         /\ last' = [NoCall EXCEPT !.endpoint = "update_user", !.user = r.user,
                                   !.response = IF r.error = <<>>
                                                THEN Response(200, {})
                                                ELSE Response(400, {})]
    /\ handled' = handled + 1
    /\ UNCHANGED <<now, rl, redis_client, tokens, calls, apart>>

\* a registration or a login without a token comes from any address, the
\* other requests from the first; an API key is presented to GET /me
NextSvc ==
    \/ \E n \in UserIds, m \in UserIds, h \in Callers :
         m \in {1, n} /\ Register(n, m, h)
    \/ \E n \in UserIds, password \in UserIds \cup {0}, c \in Bearers,
          h \in Callers :
         /\ password \in {0, n}
         /\ c # NoCredentials => h = 1
         /\ Login(n, password, c, h)
    \/ \E c \in Bearers : GenerateApiKey(c, NoKey, 1)
    \/ \E c \in Bearers, k \in KnownKeys : Me(c, k, 1)
    \/ \E c \in Bearers : Logout(c, 1)
    \/ \E u \in UserIds, user_data \in UserUpdates : UpdateUser(u, user_data)

SpecSvc == InitSvc /\ [][NextSvc]_vars

---------------------------------------------------------------------------
(* A movie row under update_movie.  Its scored columns hold None or a      *)
(* value the MovieUpdate schema admits (none is negative); the current     *)
(* date moves on.                                                          *)

Tenths == {Unset} \cup (0 .. MaxTenths)
VoteCounts == {Unset, 0, FullVotes \div 2, FullVotes, 2 * FullVotes}
ReleaseDates == {Unset, 0, (MaxAge \div 2) * DaysPerYear, MaxAge * DaysPerYear}
Budgets == {Unset} \cup (0 .. MaxMoney)
Revenues == {Unset} \cup (0 .. MaxMoney) \cup {(FullRoi + 2) * MaxMoney}

Movies ==
    [popularity : Tenths, vote_average : Tenths, vote_count : VoteCounts,
     release_date : ReleaseDates, budget : Budgets, revenue : Revenues]

\* the columns a MovieUpdate can set and the values it can set them to
Columns == DOMAIN NoMovie
ColumnValues(field) ==
    CASE field \in {"popularity", "vote_average"} -> Tenths
      [] field = "vote_count" -> VoteCounts
      [] field = "release_date" -> ReleaseDates
      [] field = "budget" -> Budgets
      [] field = "revenue" -> Revenues

InitScore ==
    /\ now = 0
    /\ users \in {t \in InitialUsers : /\ t[MaxUsers].is_active
                                       /\ t[1].api_key_expires_at = NoTime}
    /\ rl = [k \in RateKeys |-> NoCounter]
    /\ redis_client = FALSE
    /\ req = IdleReq
    /\ served = 0
    /\ conc = [r \in Slots |-> IdleCall]
    /\ clock = 0
    /\ issued = NotIssued
    /\ verified = NotVerified
    /\ tokens = {}
    /\ calls = [u \in UserIds |-> 0]
    /\ last = NoCall
    /\ handled = 0
    /\ movie \in Movies
    /\ today = MaxAge * DaysPerYear
    /\ ExtraIdle

\* update_movie with one column set in the body
UpdateMovie(field, value) ==
    /\ movie' = [movie EXCEPT ![field] = value]
    /\ UNCHANGED <<today, away>>

\* a year passes
NextYear ==
    /\ today < (MaxAge + 1) * DaysPerYear
    /\ today' = today + DaysPerYear
    /\ UNCHANGED <<movie, away>>

NextScore ==
    \/ \E field \in Columns : \E value \in ColumnValues(field) :
         UpdateMovie(field, value)
    \/ NextYear

SpecScore == InitScore /\ [][NextScore]_vars

---------------------------------------------------------------------------
(* The movie service over a stored catalogue: one method call at a time,   *)
(* each with the cache store answering or not.                             *)

MovieIds == 1 .. MaxMovies
\* ids asked for: the rows' ids and one that has no row
AskedIds == 1 .. MaxMovies + 1
Genres == {"Action", "Drama"}
Directors == {"Nolan"}
Limits == {1, MaxMovies}

\* a row of the movies table
MovieRow(i, p, v, g, a) ==
    [id |-> i, popularity |-> p, vote_average |-> MaxTenths, vote_count |-> v,
     release_date |-> Unset, budget |-> Unset, revenue |-> Unset,
     genres |-> g, director |-> IF Len(g) = 2 THEN "" ELSE "Nolan",
     adult |-> a, created_at |-> 0]

\* the rows movie i can be stored as: popular or less so, without the votes
\* that count, with two genres and no known director, without genres, adult
MovieRows(i) ==
    {MovieRow(i, MaxTenths, FullVotes, <<"Action">>, FALSE),
     MovieRow(i, 1, FullVotes, <<"Action">>, FALSE),
     MovieRow(i, MaxTenths, 0, <<"Action">>, FALSE),
     MovieRow(i, 1, FullVotes, <<"Action", "Drama">>, FALSE),
     MovieRow(i, 1, FullVotes, <<>>, FALSE),
     MovieRow(i, MaxTenths, FullVotes, <<"Action">>, TRUE)}

\* the stored catalogues
Catalogues ==
    UNION {{t \in [S -> UNION {MovieRows(i) : i \in S}] :
              \A i \in S : t[i].id = i} : S \in SUBSET MovieIds}

\* the bodies of PUT /movies/{id}
MovieUpdates ==
    {[popularity |-> 1], [popularity |-> MaxTenths, vote_count |-> FullVotes],
     [genres |-> <<"Drama">>]}

InitMovie ==
    /\ now = 0
    /\ users \in {t \in InitialUsers : /\ t[MaxUsers].is_active
                                       /\ t[1].api_key_expires_at = NoTime}
    /\ rl = [k \in RateKeys |-> NoCounter]
    /\ redis_client = FALSE
    /\ req = IdleReq
    /\ served = 0
    /\ conc = [r \in Slots |-> IdleCall]
    /\ clock = 0
    /\ issued = NotIssued
    /\ verified = NotVerified
    /\ tokens = {}
    /\ calls = [u \in UserIds |-> 0]
    /\ last = NoCall
    /\ handled = 0
    /\ movie = NoMovie
    /\ today = 0
    /\ movies \in Catalogues
    /\ cache = {}
    /\ answer = NoAnswer
    /\ txn = [r \in Slots |-> NoTxn]
    /\ MOVIES_DATABASE = <<>>
    /\ reply = NoReply

\* a method returned (or raised) with outcome o
Returned(op, arg, limit, o) ==
    /\ answer' = [op |-> op, arg |-> arg, limit |-> limit, rows |-> o.rows,
                  queries |-> o.queries, own |-> o.own, raised |-> o.raised,
                  hit |-> o.hit, result |-> o.result]
    /\ UNCHANGED <<today, afar>>

GetMovieById(movie_id, up) ==
    \E o \in {get_movie_by_id(movies, cache, redis_client, movie_id, up)} :
       /\ cache' = o.cache
       /\ redis_client' = o.client
       /\ UNCHANGED movies
       /\ Returned("get_movie_by_id", movie_id, 0, o)

GetRecommendationsByGenre(genre, limit, up) ==
    \E o \in get_recommendations_by_genre(movies, cache, redis_client, genre,
                                          limit, today, up) :
       /\ cache' = o.cache
       /\ redis_client' = o.client
       /\ UNCHANGED movies
       /\ Returned("get_recommendations_by_genre", genre, limit, o)

GetRecommendationsByDirector(director, limit) ==
    \E o \in get_recommendations_by_director(movies, director, limit, today) :
       /\ UNCHANGED <<movies, cache, redis_client>>
       /\ Returned("get_recommendations_by_director", director, limit, o)

GetSimilarMovies(movie_id, limit, up) ==
    \E o \in get_similar_movies(movies, cache, redis_client, movie_id, limit,
                                today, up) :
       /\ cache' = o.cache
       /\ redis_client' = o.client
       /\ UNCHANGED movies
       /\ Returned("get_similar_movies", movie_id, limit, o)

UpdateMovieById(movie_id, movie_data, up) ==
    \E o \in {update_movie(movies, cache, redis_client, movie_id, movie_data, up)} :
       /\ movies' = o.table
       /\ cache' = o.cache
       /\ redis_client' = o.client
       /\ Returned("update_movie", <<movie_id, movie_data>>, 0, o)

NextMovie ==
    \/ \E movie_id \in AskedIds, up \in BOOLEAN : GetMovieById(movie_id, up)
    \/ \E genre \in Genres, limit \in Limits, up \in BOOLEAN :
         GetRecommendationsByGenre(genre, limit, up)
    \/ \E director \in Directors, limit \in Limits :
         GetRecommendationsByDirector(director, limit)
    \/ \E movie_id \in AskedIds, limit \in Limits, up \in BOOLEAN :
         GetSimilarMovies(movie_id, limit, up)
    \/ \E movie_id \in AskedIds, movie_data \in MovieUpdates, up \in BOOLEAN :
         UpdateMovieById(movie_id, movie_data, up)

SpecMovie == InitMovie /\ [][NextMovie]_vars

---------------------------------------------------------------------------
(* Concurrent create_user and update_user calls.  Every await of a call    *)
(* is a step: the lookup by username, the lookup by email, the commit.     *)
(* The users table enforces its unique columns at the commit               *)
(* (models/user.py:11-12): a commit that would store a second row with the *)
(* same username or email raises IntegrityError and stores nothing.        *)

\* the unique constraints of the users table hold
UniqueUsers(table) ==
    \A u, w \in DOMAIN table :
       u # w => /\ table[u].username # table[w].username
                /\ table[u].email # table[w].email

InitUsers ==
    /\ now = 0
    /\ users \in {<<>>, <<NewUser(Username(1), Email(1), 1)>>}
    /\ rl = [k \in RateKeys |-> NoCounter]
    /\ redis_client = FALSE
    /\ req = IdleReq
    /\ served = 0
    /\ conc = [r \in Slots |-> IdleCall]
    /\ AsideIdle

\* the state concurrent UserService calls leave alone
aloof == <<now, rl, redis_client, req, served, conc, tokenVars, clientVars,
           scoreVars, movieVars, demoVars>>

\* create_user(user_data) is called: the lookup by username is next
CallCreateUser(r, n, m) ==
    /\ txn[r].pc = "idle"
    /\ txn' = [txn EXCEPT ![r] = [NoTxn EXCEPT !.pc = "username",
                                              !.op = "create_user",
                                              !.username = Username(n),
                                              !.email = Email(m)]]
    /\ UNCHANGED <<users, aloof>>

\* update_user(user_id, user_data) is called; get_user_by_id has answered
CallUpdateUser(r, user_id, user_data) ==
    /\ txn[r].pc = "idle"
    /\ txn' = [txn EXCEPT ![r] =
                 [NoTxn EXCEPT !.pc = IF get_user_by_id(users, user_id) = NoId
                                      THEN "done" ELSE "username",
                               !.op = "update_user",
                               !.user_id = user_id,
                               !.username = user_data.username,
                               !.email = user_data.email]]
    /\ UNCHANGED <<users, aloof>>

\* get_user_by_username has answered
CheckUsername(r) ==
    /\ txn[r].pc = "username"
    /\ LET existing == get_user_by_username(users, txn[r].username)
           taken == /\ txn[r].username # NoName
                    /\ existing # NoId
                    /\ existing # txn[r].user_id
       IN  txn' = [txn EXCEPT ![r].pc = IF taken THEN "done" ELSE "email",
                              ![r].error = IF taken THEN <<"ValueError">>
                                           ELSE <<>>]
    /\ UNCHANGED <<users, aloof>>

\* get_user_by_email has answered
CheckEmail(r) ==
    /\ txn[r].pc = "email"
    /\ LET existing == get_user_by_email(users, txn[r].email)
           taken == /\ txn[r].email # NoName
                    /\ existing # NoId
                    /\ existing # txn[r].user_id
       IN  txn' = [txn EXCEPT ![r].pc = IF taken THEN "done" ELSE "commit",
                              ![r].error = IF taken THEN <<"ValueError">>
                                           ELSE <<>>]
    /\ UNCHANGED <<users, aloof>>

\* the table after the INSERT or UPDATE of call c
Written(table, c) ==
    IF c.op = "create_user"
    THEN Append(table, NewUser(c.username, c.email, c.username[2]))
    ELSE [table EXCEPT
            ![c.user_id].username = IF c.username # NoName THEN c.username ELSE @,
            ![c.user_id].email = IF c.email # NoName THEN c.email ELSE @]

\* await self.db.commit()
Commit(r) ==
    /\ txn[r].pc = "commit"
    /\ LET written == Written(users, txn[r]) IN
         IF UniqueUsers(written)
         THEN /\ users' = written
              /\ txn' = [txn EXCEPT ![r].pc = "done",
                                    ![r].user_id = IF txn[r].op = "create_user"
                                                   THEN Len(written) ELSE @]
         ELSE /\ users' = users
              /\ txn' = [txn EXCEPT ![r].pc = "done",
                                    ![r].error = <<"IntegrityError">>]
    /\ UNCHANGED aloof

NextUsers ==
    \/ \E r \in Slots, n \in UserIds, m \in UserIds :
         m \in {1, n} /\ CallCreateUser(r, n, m)
    \/ \E r \in Slots, user_id \in UserIds, user_data \in UserUpdates :
         CallUpdateUser(r, user_id, user_data)
    \/ \E r \in Slots : CheckUsername(r)
    \/ \E r \in Slots : CheckEmail(r)
    \/ \E r \in Slots : Commit(r)

SpecUsers == InitUsers /\ [][NextUsers]_vars

---------------------------------------------------------------------------
(* MovieRecDemo_WithoutRules/app.py: the standalone demo service.          *)
(* Ratings are held in tenths; None is Unset.  A movie is the record of    *)
(* the fields the recommendation reads.                                    *)

\* the head of MOVIES_DATABASE (app.py:15-106)
SampleMovies ==
    <<[id |-> 1, genre |-> <<"Drama">>, rating |-> 93, year |-> 1994],
      [id |-> 2, genre |-> <<"Crime", "Drama">>, rating |-> 92, year |-> 1972],
      [id |-> 3, genre |-> <<"Crime", "Drama">>, rating |-> 89, year |-> 1994],
      [id |-> 4, genre |-> <<"Action", "Crime", "Drama">>, rating |-> 90,
       year |-> 2008],
      [id |-> 5, genre |-> <<"Drama">>, rating |-> 88, year |-> 1999],
      [id |-> 6, genre |-> <<"Action", "Adventure", "Sci-Fi">>, rating |-> 88,
       year |-> 2010],
      [id |-> 7, genre |-> <<"Action", "Sci-Fi">>, rating |-> 87, year |-> 1999],
      [id |-> 8, genre |-> <<"Biography", "Crime", "Drama">>, rating |-> 87,
       year |-> 1990],
      [id |-> 9, genre |-> <<"Crime", "Drama", "Thriller">>, rating |-> 86,
       year |-> 1991],
      [id |-> 10, genre |-> <<"Adventure", "Drama", "Sci-Fi">>, rating |-> 86,
       year |-> 2014]>>

\* limit used when the request has none
DefaultLimit == 5

\* str.lower() on the genre names in use
lower(name) ==
    CASE name \in {"Drama", "DRAMA", "drama"} -> "drama"
      [] name \in {"Crime", "crime"} -> "crime"
      [] name \in {"Action", "ACTION", "action"} -> "action"
      [] name \in {"Adventure", "adventure"} -> "adventure"
      [] name \in {"Sci-Fi", "sci-fi"} -> "sci-fi"
      [] name \in {"Biography", "biography"} -> "biography"
      [] name \in {"Thriller", "thriller"} -> "thriller"
      [] OTHER -> name

\* any(genre.lower() in [g.lower() for g in movie["genre"]]
\*     for genre in preferred_genres)
GenreMatch(m, preferred_genres) ==
    \E i \in 1 .. Len(preferred_genres), j \in 1 .. Len(m.genre) :
       lower(preferred_genres[i]) = lower(m.genre[j])

\* list.sort(key=rating, reverse=True): stable, so equal ratings keep their
\* order
SortByRating(seq) ==
    LET o == CHOOSE q \in Orderings(1 .. Len(seq)) :
               \A i, j \in 1 .. Len(seq) :
                  i < j => \/ seq[q[i]].rating > seq[q[j]].rating
                           \/ /\ seq[q[i]].rating = seq[q[j]].rating
                              /\ q[i] < q[j]
    IN  [k \in 1 .. Len(seq) |-> seq[o[k]]]

\* seq[:limit], a negative limit counting from the end
Slice(seq, limit) ==
    SubSeq(seq, 1, IF limit >= 0 THEN Min(limit, Len(seq))
                   ELSE Max(Len(seq) + limit, 0))

\* random.sample(population, k): every sequence of k distinct elements
sample(population, k) ==
    {[i \in 1 .. k |-> population[o[i]]] :
       o \in {q \in [1 .. k -> 1 .. Len(population)] :
                \A i, j \in 1 .. k : i # j => q[i] # q[j]}}

\* get_recommendations (POST /recommendations): every answer the request can
\* get.  preferred_genres None and [] are both NoName.
get_recommendations(database, request) ==
    LET \* candidates = MOVIES_DATABASE.copy(), then the filters, each a
        \* list comprehension that keeps the order
        rated == IF request.min_rating \notin {Unset, 0}
                 THEN LET Keep(m) == m.rating >= request.min_rating
                      IN  SelectSeq(database, Keep)
                 ELSE database
        since == IF request.min_year \notin {Unset, 0}
                 THEN LET Keep(m) == m.year >= request.min_year
                      IN  SelectSeq(rated, Keep)
                 ELSE rated
        until == IF request.max_year \notin {Unset, 0}
                 THEN LET Keep(m) == m.year <= request.max_year
                      IN  SelectSeq(since, Keep)
                 ELSE since
        candidates == IF request.preferred_genres \notin {NoName}
                      THEN LET Keep(m) == GenreMatch(m, request.preferred_genres)
                           IN  SelectSeq(until, Keep)
                      ELSE until
        \* limit = request.limit or 5
        limit == IF request.limit \in {Unset, 0} THEN DefaultLimit
                 ELSE request.limit
        recommendations == Slice(SortByRating(candidates), limit)
    IN  IF recommendations # <<>>
        THEN {[status |-> 200, recommendations |-> recommendations,
               total_recommendations |-> Len(recommendations)]}
        ELSE IF Min(limit, Len(database)) < 0
        THEN \* random.sample raises ValueError for a negative size
             {[status |-> 500, recommendations |-> <<>>,
               total_recommendations |-> 0]}
        ELSE {[status |-> 200, recommendations |-> r,
               total_recommendations |-> Len(r)] :
                r \in sample(database, Min(limit, Len(database)))}

\* the request bodies: with and without each filter, genre names in any
\* case, a limit that is absent, 0, positive or negative
Requests ==
    [preferred_genres : {NoName, <<"drama">>, <<"ACTION", "Sci-Fi">>,
                         <<"Thriller">>},
     min_rating : {Unset, 0, 90, 95},
     min_year : {Unset, 1994, 2009},
     max_year : {Unset, 1994},
     limit : {Unset, 0, -2} \cup (1 .. MaxLimit)]

InitDemo ==
    /\ now = 0
    /\ users \in {t \in InitialUsers : /\ t[MaxUsers].is_active
                                       /\ t[1].api_key_expires_at = NoTime}
    /\ rl = [k \in RateKeys |-> NoCounter]
    /\ redis_client = FALSE
    /\ req = IdleReq
    /\ served = 0
    /\ conc = [r \in Slots |-> IdleCall]
    /\ clock = 0
    /\ issued = NotIssued
    /\ verified = NotVerified
    /\ tokens = {}
    /\ calls = [u \in UserIds |-> 0]
    /\ last = NoCall
    /\ handled = 0
    /\ movie = NoMovie
    /\ today = 0
    /\ movies = <<>>
    /\ cache = {}
    /\ answer = NoAnswer
    /\ txn = [r \in Slots |-> NoTxn]
    /\ MOVIES_DATABASE = SubSeq(SampleMovies, 1, Min(DemoMovies, Len(SampleMovies)))
    /\ reply = NoReply

\* POST /recommendations: the handler runs for one request
PostRecommendations(request) ==
    /\ reply = NoReply
    /\ \E o \in get_recommendations(MOVIES_DATABASE, request) :
         reply' = [request |-> request, status |-> o.status,
                   recommendations |-> o.recommendations,
                   total_recommendations |-> o.total_recommendations]
    /\ UNCHANGED <<MOVIES_DATABASE, pipeVars, tokenVars, clientVars, scoreVars,
                   movieVars, txn>>

\* the response has been sent; the handler keeps nothing of the request
Respond ==
    /\ reply # NoReply
    /\ reply' = NoReply
    /\ UNCHANGED <<MOVIES_DATABASE, pipeVars, tokenVars, clientVars, scoreVars,
                   movieVars, txn>>

NextDemo ==
    \/ \E request \in Requests : PostRecommendations(request)
    \/ Respond

SpecDemo == InitDemo /\ [][NextDemo]_vars

---------------------------------------------------------------------------
(* A single request followed from its arrival to its answer; its headers   *)
(* and the outcome of its store lookups stay in the record to the end.     *)

\* the first request the service receives
First(c) == req.pc = "idle" /\ Arrive(c)

\* the auth dependency d of the endpoint returns or raises
Authenticate(d) ==
    /\ req.pc = "resolved"
    /\ LET a == AuthResult(d, req.current_user, req.api_user) IN
         req' = [req EXCEPT !.pc = IF a.error = Passed THEN "authed" ELSE "done",
                            !.dep = d, !.user = a.user, !.response = a.error]
    /\ UNCHANGED <<now, users, rl, redis_client, served, conc, aside>>

NextOne ==
    \/ \E c \in Credentials : First(c)
    \/ \E db \in {"ok", "error"} : ResolveCurrentUser(db)
    \/ \E k \in ApiKeyHeaders, db \in {"ok", "error"} : ResolveApiUser(k, db)
    \/ \E d \in AuthDeps : Authenticate(d)
    \/ \E h \in Hosts, up \in BOOLEAN : RateLimit(h, up)
    \/ Endpoint
    \/ Tick

SpecOne == Init /\ [][NextOne]_vars

---------------------------------------------------------------------------
(* Properties *)

\* a step in which the request passes through rate_limit_middleware
RateLimitStep == req.pc = "authed" /\ req'.pc # "authed"

TooManyRequests == Response(429, {<<"Retry-After", "60">>})

\* C1: with the counter store reachable, the increment of a request returns 1
\* for a fresh key and one more than the previous count otherwise, and the
\* request is rejected (429, Retry-After: 60) exactly when that returned count
\* exceeds the configured limit; otherwise it is admitted.
C1_SequentialLimit ==
    [][(RateLimitStep /\ req'.store = "ok") =>
         LET k == req'.key
             before == IF Live(rl, k, now) THEN rl[k].count ELSE 0
         IN  /\ req'.current_count = before + 1
             /\ rl'[k].count = before + 1
             /\ (req'.current_count > rate_limit_per_minute) <=>
                  (req'.response = TooManyRequests /\ req'.pc = "done")
             /\ (req'.current_count <= rate_limit_per_minute) <=>
                  (req'.response = Passed /\ req'.pc = "admitted")]_vars

\* request limit+1 on a key is rejected after the store answered
C1_Witness ==
    /\ req.store = "ok"
    /\ req.current_count = rate_limit_per_minute + 1
    /\ req.response = TooManyRequests

\* the calls of the burst that reached the store, per key
Counted(k) == {r \in Slots : conc[r].pc = "done" /\ conc[r].store = "ok"
                              /\ conc[r].key = k}

\* C2: however the concurrent calls on one key interleave, the counts returned
\* to those that reached the store are c+1 .. c+K, each returned once (c the
\* count before the burst), and at most limit - c of them are admitted.
C2_AtomicIncrement ==
    \A k \in RateKeys :
      LET n == Cardinality(Counted(k))
          c == InitialCount(k)
      IN  /\ {conc[r].current_count : r \in Counted(k)} = (c + 1) .. (c + n)
          /\ \A r1, r2 \in Counted(k) :
               r1 # r2 => conc[r1].current_count # conc[r2].current_count
          /\ n > 0 => rl[k].count = c + n
          /\ Cardinality({r \in Counted(k) : conc[r].response = Passed})
               <= IF rate_limit_per_minute > c THEN rate_limit_per_minute - c ELSE 0

\* every slot has been through the store on the same fresh key
C2_Witness ==
    \E k \in RateKeys :
      /\ InitialCount(k) = 0
      /\ Counted(k) = Slots
      /\ \E r \in Slots : conc[r].response = TooManyRequests

\* C3: a request whose increment found the counter store unreachable got the
\* count 0 and is admitted: it is answered neither 429 nor 500, whatever the
\* count of its key.
C3_FailOpen ==
    req.store = "error" =>
      /\ req.current_count = 0
      /\ req.pc \in {"admitted", "done"}
      /\ req.response \in {Passed, Response(200, {})}
      /\ req.pc = "admitted" <=> req.response = Passed

\* the store failed for a request whose key had already used up the limit
C3_Witness ==
    /\ req.store = "error"
    /\ req.pc = "done"
    /\ req.response = Response(200, {})
    /\ Live(rl, req.key, now)
    /\ rl[req.key].count >= rate_limit_per_minute

\* the instant of the last increment of a key the store holds
LastIncrement(k) == rl[k].expire_at - RateWindow

\* C4: every increment, of an admitted or of a rejected request, sets the
\* key's expiry to a full window from now; the count continues (never 1) when
\* the previous increment is less than a window old and restarts at 1 only
\* when the key was never charged or a full window has passed since.
C4_SlidingExpiry ==
    [][(RateLimitStep /\ req'.store = "ok") =>
         LET k == req'.key IN
           /\ rl'[k].expire_at = now + RateWindow
           /\ (rl[k].count > 0 /\ now - LastIncrement(k) < RateWindow) =>
                req'.current_count = rl[k].count + 1
           /\ req'.current_count = 1 =>
                (rl[k].count = 0 \/ now - LastIncrement(k) >= RateWindow)]_vars

\* a rejected request has pushed the expiry of its key, charged at an earlier
\* instant, to a full window from now
C4_Witness ==
    /\ req.store = "ok"
    /\ req.response = TooManyRequests
    /\ now > 0
    /\ rl[req.key].expire_at = now + RateWindow

Unauthenticated == Response(401, {<<"WWW-Authenticate", "Bearer">>})

\* C5: the key a request is charged under is user:<id> of the identity the
\* bearer token resolved, whether or not an API key resolved one too; else
\* api:<id> of the identity the API key resolved; else ip:<caller address>.
C5_RateLimitKey ==
    req.store # "unused" =>
      /\ req.current_user # NoUser =>
           req.key = <<"user", req.current_user.id>> /\ req.current_user.id \in UserIds
      /\ (req.current_user = NoUser /\ req.api_user # NoUser) =>
           req.key = <<"api", req.api_user.id>> /\ req.api_user.id \in UserIds
      /\ (req.current_user = NoUser /\ req.api_user = NoUser) =>
           req.key = <<"ip", req.host>> /\ req.host \in Hosts
      /\ req.store = "ok" => rl[req.key].count > 0

\* token and API key resolved two different identities and the token's is charged
C5_Witness ==
    /\ req.store = "ok"
    /\ req.current_user # NoUser
    /\ req.api_user # NoUser
    /\ req.current_user.id # req.api_user.id
    /\ req.key = <<"user", req.current_user.id>>

\* C6: require_auth returns the identity of the token path whenever that path
\* resolved one, also when the API key resolved another identity; it returns
\* the API-key identity only when the token path resolved none.
C6_TokenFirst ==
    req.dep = "require_auth" =>
      /\ req.current_user # NoUser => req.user = req.current_user
      /\ (req.user # NoUser /\ req.user # req.current_user) =>
           (req.current_user = NoUser /\ req.user = req.api_user)

\* both paths resolved, to different identities
C6_Witness ==
    /\ req.dep = "require_auth"
    /\ req.current_user # NoUser
    /\ req.api_user # NoUser
    /\ req.current_user.id # req.api_user.id
    /\ req.user = req.current_user

\* C7: require_auth ends the request with 401 and WWW-Authenticate: Bearer
\* exactly when neither path resolved an identity; otherwise it returns an
\* identity one of the paths resolved and raises nothing.
C7_RequireAuth ==
    req.dep = "require_auth" =>
      LET none == req.current_user = NoUser /\ req.api_user = NoUser IN
        /\ none <=> (req.response = Unauthenticated /\ req.pc = "done")
        /\ none <=> req.response.status \in {400, 401, 403, 500}
        /\ none <=> req.user = NoUser
        /\ req.user \in {NoUser, req.current_user, req.api_user}
        /\ req.user # Raised

\* require_auth has rejected a request
C7_Witness ==
    /\ req.dep = "require_auth"
    /\ req.response = Unauthenticated
    /\ req.store = "unused"

\* C8: optional_auth never rejects: it returns the identity require_auth
\* returns for the same resolved paths, none where require_auth fails, and
\* the request goes on to the rate limiter.
C8_OptionalAuth ==
    req.dep = "optional_auth" =>
      /\ req.response.status \notin {400, 401, 403, 500}
      /\ req.user = require_auth(req.current_user, req.api_user).user
      /\ req.user # Raised
      /\ req.pc = "done" => req.store # "unused"

\* an anonymous request went through optional_auth and was served
C8_Witness ==
    /\ req.dep = "optional_auth"
    /\ req.current_user = NoUser
    /\ req.api_user = NoUser
    /\ req.user = NoUser
    /\ req.response = Response(200, {})

\* the bearer credentials are a verifiable token of an existing user
TokenOf(credentials, u) ==
    /\ credentials.kind = "jwt"
    /\ credentials.signed
    /\ credentials.exp >= now
    /\ credentials.sub # NoName
    /\ credentials.user_id = u
    /\ u \in UserIds

\* a step in which the endpoint's auth dependency d returns or raises
AuthStep(d) == req.pc = "resolved" /\ req'.pc # "resolved" /\ req'.dep = d

\* C9: get_current_active_user answers 400 to a request whose valid bearer
\* token identifies an existing but inactive user (and 401 when no identity
\* is presented).
C9_InactiveIs400 ==
    [][AuthStep("get_current_active_user") =>
         /\ (\E u \in UserIds : /\ TokenOf(req.credentials, u)
                                /\ ~users[u].is_active
                                /\ req.db_user = "ok")
              => req'.response = Response(400, {})
         /\ req.credentials.kind = "none" => req'.response = Unauthenticated]_vars

\* C10: get_current_user returns none, and raises nothing, when the token
\* does not verify, lacks sub or user_id, names no stored user, or the user
\* store raises during the lookup; verify_api_key returns none, and raises
\* nothing, when the store raises during its lookup.
C10_NoPropagation ==
    [][/\ (req.pc = "received" /\ req'.pc # "received") =>
            /\ req'.current_user # Raised
            /\ req'.response.status # 500
            /\ (\/ req.credentials.kind # "jwt"
                \/ ~req.credentials.signed
                \/ req.credentials.exp < now
                \/ req.credentials.sub = NoName
                \/ req.credentials.user_id = NoId
                \/ req.credentials.user_id \notin UserIds
                \/ req'.db_user = "error") => req'.current_user = NoUser
       /\ (req.pc = "token_done" /\ req'.pc # "token_done") =>
            /\ req'.api_user # Raised
            /\ req'.response.status # 500
            /\ req'.db_key = "error" => req'.api_user = NoUser]_vars

\* the store raised while looking up the user of a verifiable token
C10_Witness ==
    /\ req.pc = "token_done"
    /\ req.db_user = "error"
    /\ \E u \in UserIds : TokenOf(req.credentials, u) /\ users[u].is_active
    /\ req.current_user = NoUser

\* a step in which verify_api_key returns
ApiKeyStep == req.pc = "token_done" /\ req'.pc # "token_done"

\* C11: the API-key path resolves an identity only if some user's stored
\* api_key equals the presented header, that user is active and the key is
\* not expired, expired meaning now > api_key_expires_at: a key presented at
\* its exact expiry instant, or one with no expiry recorded, is accepted.
C11_ApiKeyPath ==
    [][ApiKeyStep =>
         LET k == req'.api_key
             holders == {u \in UserIds : users[u].api_key = k /\ k # NoKey}
             accepted(u) == /\ users[u].is_active
                            /\ ~(users[u].api_key_expires_at # NoTime
                                   /\ now > users[u].api_key_expires_at)
         IN  /\ req'.api_user # NoUser =>
                  \E u \in holders : accepted(u) /\ req'.api_user.id = u
             /\ \A u \in holders :
                  (/\ users[u].is_active
                   /\ users[u].api_key_expires_at \in {NoTime, now}
                   /\ req'.db_key = "ok") => req'.api_user.id = u]_vars

\* a key was presented at its exact expiry instant and resolved its holder
C11_Witness ==
    /\ req.pc = "resolved"
    /\ req.api_user # NoUser
    /\ users[req.api_user.id].api_key = req.api_key
    /\ users[req.api_user.id].api_key_expires_at = now

\* a step in which get_current_user returns
TokenStep == req.pc = "received" /\ req'.pc # "received"

\* the bearer credentials are present and cannot verify at time t: not a
\* token at all, forged, or expired
BadToken(credentials, t) ==
    \/ credentials.kind = "malformed"
    \/ credentials.kind = "jwt" /\ (~credentials.signed \/ credentials.exp < t)

\* the holder of key k when k is a stored key of an active user that has not
\* expired at time t, else NoId
ValidHolder(k, t) ==
    LET ok == {u \in UserIds : /\ k # NoKey
                               /\ users[u].api_key = k
                               /\ users[u].is_active
                               /\ ~(users[u].api_key_expires_at # NoTime
                                      /\ t > users[u].api_key_expires_at)}
    IN  IF ok = {} THEN NoId ELSE CHOOSE u \in ok : TRUE

\* C12: the two credential paths are independent.  A request whose bearer
\* token is invalid, forged or expired and whose API key is valid is
\* authenticated as the API-key identity: require_auth admits it and it is
\* charged under api:<id>.  The API-key path is skipped only when the
\* X-API-Key header is absent: a presented key is looked up whatever the
\* token path returned.
C12_IndependentPaths ==
    [][/\ (TokenStep /\ BadToken(req.credentials, now)) =>
            req'.current_user = NoUser /\ req'.pc = "token_done"
       /\ ApiKeyStep =>
            /\ req'.api_key = NoKey => req'.api_user = NoUser
            /\ (req'.api_key # NoKey /\ req'.db_key = "ok") =>
                 req'.api_user.id = ValidHolder(req'.api_key, now)
       /\ (AuthStep("require_auth") /\ req.credentials.kind # "none"
             /\ req.current_user = NoUser /\ req.api_user # NoUser) =>
            /\ req'.user = req.api_user
            /\ req'.response = Passed
            /\ req'.pc = "authed"
       /\ (RateLimitStep /\ req.dep = "require_auth"
             /\ req.credentials.kind # "none"
             /\ req.current_user = NoUser /\ req.api_user # NoUser) =>
            req'.key = <<"api", req.api_user.id>>]_vars

\* a forged token came with a valid API key and the request was served as
\* the key's holder
C12_Witness ==
    /\ req.pc = "done"
    /\ req.dep = "require_auth"
    /\ req.credentials.kind = "jwt" /\ ~req.credentials.signed
    /\ req.api_key # NoKey
    /\ req.api_user.id = ValidHolder(req.api_key, now)
    /\ req.api_user.id # req.credentials.user_id
    /\ req.user = req.api_user
    /\ req.key = <<"api", req.api_user.id>>
    /\ req.store = "ok"
    /\ req.response = Response(200, {})

\* C13: verify_token is total: it returns the payload of a token that
\* verifies and none otherwise, it never raises, and its caller cannot tell
\* a malformed token from a forged or an expired one.
C13_VerifyTotal ==
    verified # NotVerified =>
      LET c == verified.token
          r == verified.result
          good == c.kind = "jwt" /\ c.signed /\ timegm(clock) <= c.exp
      IN  /\ good => r = [ok |-> TRUE, sub |-> c.sub, user_id |-> c.user_id]
          /\ ~good => r = NoPayload
          /\ r.ok \in BOOLEAN

\* the issued token was presented after its expiry and did not verify
C13_Witness ==
    /\ issued # NotIssued
    /\ verified.token = issued.token
    /\ issued.token.exp < timegm(clock)
    /\ verified.result = NoPayload

\* the lifetime create_access_token was asked for, in clock ticks
RequestedLifetime ==
    IF issued.expires_delta = NoDelta THEN Minutes(access_token_expire_minutes)
    ELSE issued.expires_delta

\* C14: a token created by create_access_token for subject s, user id i and
\* lifetime ttl (the configured default when none is given) verifies, with
\* sub = s and user_id = i, at every time up to its expiry issued_at + ttl,
\* and does not verify at any time strictly after that expiry.
C14_TokenLifetime ==
    (issued # NotIssued /\ verified # NotVerified
       /\ verified.token = issued.token) =>
      LET expiry == issued.at + RequestedLifetime
          i == issued.token.user_id
      IN  /\ clock <= expiry =>
               verified.result = [ok |-> TRUE, sub |-> users[i].username,
                                  user_id |-> i]
          /\ clock > expiry => verified.result = NoPayload

\* C15: tokens are stateless.  No operation of the service (logout, a later
\* login, API-key generation, a user update, a registration) changes the
\* outcome of presenting a token that was issued and has not expired: it
\* resolves the identity it was issued to before and after; in particular
\* the token presented with POST /logout resolves the same identity after it.
C15_StatelessTokens ==
    [][\A c \in tokens :
         c.exp >= now' =>
           /\ get_current_user(c, users', now', "ok")
                = get_current_user(c, users, now, "ok")
           /\ get_current_user(c, users', now', "ok").id = c.user_id]_vars

\* a client logged out with its token and the token still resolves its user
C15_Witness ==
    /\ last.endpoint = "logout"
    /\ last.response = Response(200, {})
    /\ last.credentials \in tokens
    /\ last.credentials.exp >= now
    /\ get_current_user(last.credentials, users, now, "ok").id
         = last.credentials.user_id

\* C16: rate limiting is evaluated for every request to a rate-limited
\* endpoint, whether or not the endpoint requires authentication: a request
\* to an endpoint that requires auth and presents no valid credentials is
\* charged once to the ip:<address> counter, as it is on an endpoint without
\* require_auth.
C16_LimitedBeforeRejected ==
    (/\ req.pc = "done"
     /\ req.dep \in {"require_auth", "none"}
     /\ req.current_user = NoUser
     /\ req.api_user = NoUser) =>
      /\ req.store # "unused"
      /\ req.key = <<"ip", req.host>>
      /\ req.store = "ok" => rl[req.key].count >= 1

\* C17: API keys are one-to-one.  After any sequence of POST /api-key calls
\* by any users no two users hold the same key, every call by an
\* authenticated user succeeds and returns a key, and presenting a returned
\* key resolves exactly the user who generated it.
C17_KeysOneToOne ==
    /\ \A u \in DOMAIN users, v \in DOMAIN users :
         (u # v /\ users[u].api_key # NoKey) =>
           users[u].api_key # users[v].api_key
    /\ (last.endpoint = "api-key" /\ last.user # NoId
          /\ last.response.status # 429) =>
         /\ last.response = Response(200, {})
         /\ last.api_key # NoKey
         /\ verify_api_key(last.api_key, users, now, "ok").id = last.user

\* C18: with limit L = rate_limit_per_minute, after registering and logging
\* in (both rate limited themselves) the first L calls a user makes with the
\* issued token are admitted and call L+1 is answered 429 with
\* Retry-After: 60; register and login consume none of the L: they are
\* charged to the caller's address and the user's counter holds exactly the
\* calls made with the token.
C18_EndToEnd ==
    /\ \A u \in UserIds : rl[<<"user", u>>].count = calls[u]
    /\ last.credentials.kind = "jwt" =>
         LET u == last.credentials.user_id IN
           /\ last.key = <<"user", u>>
           /\ calls[u] <= rate_limit_per_minute =>
                last.response.status # 429
           /\ calls[u] > rate_limit_per_minute =>
                last.response = TooManyRequests
    /\ (last.endpoint \in {"register", "login"}
          /\ last.credentials = NoCredentials) => last.key[1] = "ip"

\* a user registered, logged in, made L calls with the token and was
\* refused call L+1
C18_Witness ==
    /\ Len(users) = 1
    /\ users[1].last_login # NoTime
    /\ calls[1] = rate_limit_per_minute + 1
    /\ last.credentials \in tokens
    /\ last.credentials.user_id = 1
    /\ last.response = TooManyRequests

\* C19: there is exactly one counter per key.  A request changes the count
\* and the expiry of its own key and of no other, and nothing but a request
\* passing through the limiter changes a counter; user:<n>, api:<n> and
\* ip:<address> are distinct buckets: API-key traffic of identity n leaves
\* user:<n> alone, token traffic leaves api:<n> alone, and neither touches
\* an address counter.
C19_OneCounterPerKey ==
    [][/\ RateLimitStep =>
            /\ \A k \in RateKeys \ {req'.key} : rl'[k] = rl[k]
            /\ req.current_user # NoUser =>
                 /\ rl'[<<"api", req.current_user.id>>]
                      = rl[<<"api", req.current_user.id>>]
                 /\ \A h \in Hosts : rl'[<<"ip", h>>] = rl[<<"ip", h>>]
            /\ (req.current_user = NoUser /\ req.api_user # NoUser) =>
                 /\ rl'[<<"user", req.api_user.id>>]
                      = rl[<<"user", req.api_user.id>>]
                 /\ \A h \in Hosts : rl'[<<"ip", h>>] = rl[<<"ip", h>>]
            /\ (req.current_user = NoUser /\ req.api_user = NoUser) =>
                 \A u \in UserIds : /\ rl'[<<"user", u>>] = rl[<<"user", u>>]
                                     /\ rl'[<<"api", u>>] = rl[<<"api", u>>]
       /\ ~RateLimitStep => rl' = rl]_vars

\* an API-key request of an identity was counted while the counter of the
\* same identity's token traffic stands at another value
C19_Witness ==
    /\ req.store = "ok"
    /\ req.current_user = NoUser
    /\ req.api_user # NoUser
    /\ req.key = <<"api", req.api_user.id>>
    /\ rl[<<"user", req.api_user.id>>].count > 0
    /\ rl[<<"user", req.api_user.id>>] # rl[req.key]

\* the movie changes in column `field` only, to a value not below the old one
\* (None counting as 0), and the date stays
Raises(field) ==
    /\ today' = today
    /\ movie' = [movie EXCEPT ![field] = movie'[field]]
    /\ OrZero(movie'[field]) >= OrZero(movie[field])

\* C20: Movie.popularity_score is monotonically non-decreasing in popularity
\* and in vote_average when vote_count, release_date, budget, revenue and the
\* current date are held fixed.
C20_Monotone ==
    [][(Raises("popularity") \/ Raises("vote_average")) =>
         ScoreLeq(popularity_score(movie, today),
                  popularity_score(movie', today'))]_vars

\* a movie with votes that count has a vote average, and a higher one scores
\* strictly more than a lower one would
C20_Witness ==
    /\ movie.vote_average > 0
    /\ OrZero(movie.vote_count) > 0
    /\ ~ScoreLeq(popularity_score(movie, today),
                  popularity_score([movie EXCEPT !.vote_average = @ - 1], today))

\* the movie gets no financial bonus: budget unset or <= 0, or revenue unset
NoBonus(m) == m.budget = Unset \/ m.budget <= 0 \/ m.revenue = Unset

\* popularity + vote_average * min(vote_count / 1000, 1) + 0.25, absent
\* values as 0
UndatedScore(m) ==
    [num |-> OrZero(m.popularity) * (ScoreDen(1) \div 10)
               + OrZero(m.vote_average) * Min(OrZero(m.vote_count), FullVotes)
                   * (ScoreDen(1) \div (10 * FullVotes))
               + ScoreDen(1) \div 4,
     den |-> ScoreDen(1)]

\* C21: for a movie with no release date and no financial bonus the score is
\* popularity + vote_average * min(vote_count/1000, 1) + 0.25, absent values
\* counting as 0; no movie makes the computation fail (the only division by
\* a column, by budget, is never by zero).
C21_UndatedScore ==
    /\ (movie.release_date = Unset /\ NoBonus(movie)) =>
          /\ ScoreLeq(popularity_score(movie, today), UndatedScore(movie))
          /\ ScoreLeq(UndatedScore(movie), popularity_score(movie, today))
    /\ popularity_score(movie, today).den > 0

\* an undated movie without bonus whose three summands are all present, and
\* one with every column None
C21_Witness ==
    /\ movie.release_date = Unset /\ movie.budget = 0
    /\ movie.popularity > 0 /\ movie.vote_average > 0
    /\ movie.vote_count = FullVotes \div 2
    /\ popularity_score(movie, today).num =
         UndatedScore(movie).num
    /\ popularity_score(NoMovie, today).num = ScoreDen(1) \div 4

\* the base popularity as a score
BaseScore(m) ==
    [num |-> OrZero(m.popularity) * (ScoreDen(1) \div 10), den |-> ScoreDen(1)]

\* C22: for every movie the score is at least the base popularity, whatever
\* vote_average, vote_count, release_date, budget and revenue are.
C22_AtLeastBase == ScoreLeq(BaseScore(movie), popularity_score(movie, today))

\* the last call was one of the three recommendation methods
Recommending ==
    answer.op \in {"get_recommendations_by_genre",
                   "get_recommendations_by_director", "get_similar_movies"}

\* C23: on a cache miss a recommendation method returns exactly one
\* recommendation per movie of the store query's result, in the result's
\* order, each with that movie's popularity_score and the method's reason
\* string; the score drops, adds or reorders nothing.
C23_OnePerMovie ==
    (Recommending /\ ~answer.hit) =>
       /\ answer.raised = ""
       /\ Len(answer.result) = Len(answer.rows)
       /\ \A k \in 1 .. Len(answer.rows) :
            /\ answer.result[k].movie = answer.rows[k]
            /\ answer.result[k].score = popularity_score(answer.rows[k], today)
            /\ answer.op = "get_recommendations_by_genre" =>
                 answer.result[k].reason =
                    <<"Popular", answer.arg, "movie with high ratings">>

\* C24: get_similar_movies returns the empty list without a store query of
\* its own when the source movie does not exist, the empty list when the
\* source movie has no genres, and otherwise makes exactly one store query
\* of its own and never returns the source movie.
C24_SimilarMovies ==
    answer.op = "get_similar_movies" =>
       /\ answer.raised = ""
       /\ IF answer.arg \notin DOMAIN movies
          THEN answer.result = <<>> /\ answer.own = 0
          ELSE IF movies[answer.arg].genres = <<>>
          THEN answer.result = <<>>
          ELSE /\ answer.own = 1
               /\ \A k \in 1 .. Len(answer.result) :
                     answer.result[k].movie.id # answer.arg

\* C25: get_movie_by_id without a cache hit makes exactly one store query
\* and returns the stored movie of that id, or None when there is none,
\* without an error and without caching anything for a missing movie; with a
\* cache hit it makes no store query; a failing cache never makes it fail.
C25_GetMovieById ==
    answer.op = "get_movie_by_id" =>
       /\ answer.raised = ""
       /\ IF answer.hit
          THEN answer.queries = 0
          ELSE /\ answer.queries = 1
               /\ answer.result = IF answer.arg \in DOMAIN movies
                                  THEN movies[answer.arg] ELSE NoRow
       /\ answer.arg \notin DOMAIN movies =>
            \A e \in cache : e.key # <<"movie", answer.arg>>

\* the row carries the values of the fields set in movie_data
Carries(row, movie_data) ==
    /\ row # NoRow
    /\ \A f \in DOMAIN movie_data : row[f] = movie_data[f]

RegisterStatus(c) ==
    IF c.error = <<>> THEN 200
    ELSE IF c.error = <<"ValueError">> THEN 400 ELSE 500

\* C26: whatever create_user and update_user calls ran, one after another or
\* interleaved, no two users share a username or an email, and a call that
\* would introduce a duplicate fails with the validation error (400 from
\* /register) and leaves the users table unchanged.
C26_UniqueByValidation ==
    /\ []UniqueUsers(users)
    /\ [][\A r \in Slots :
            (txn[r].pc # "done" /\ txn'[r].pc = "done" /\ txn'[r].error # <<>>) =>
               /\ txn'[r].error = <<"ValueError">>
               /\ txn'[r].op = "create_user" => RegisterStatus(txn'[r]) = 400
               /\ users' = users]_vars

\* the credentials of the request are those of user u and of nobody else: a
\* verifiable token of u, u's stored API key, or both
HeldBy(u) ==
    LET token == TokenOf(req.credentials, u)
        key == req.api_key # NoKey /\ req.api_key = users[u].api_key
    IN  /\ token \/ key
        /\ token \/ req.credentials.kind = "none"
        /\ key \/ req.api_key = NoKey

\* POST /login for an inactive account answers 401 whatever the password,
\* issues no token and leaves last_login alone (a request over the limit is
\* answered 429 before the endpoint runs)
InactiveLoginRefused ==
    [][\A n \in UserIds, password \in UserIds \cup {0}, c \in Bearers,
          h \in Callers :
         (/\ Login(n, password, c, h)
          /\ n \in DOMAIN users
          /\ ~users[n].is_active
          /\ last'.response.status # 429) =>
            /\ last'.response = Unauthenticated
            /\ last'.access_token = NoCredentials
            /\ tokens' = tokens
            /\ users' = users]_vars

\* C27: an inactive user is admitted by no credential path.  A request to an
\* endpoint behind require_auth that presents the user's unexpired token or
\* valid API key resolves no identity, is answered 401 and is rate-limited
\* under the ip: key of its caller.
C27_InactiveNeverAdmitted ==
    \A u \in UserIds :
       (/\ req.pc = "done"
        /\ req.dep = "require_auth"
        /\ ~users[u].is_active
        /\ HeldBy(u)) =>
          /\ req.current_user = NoUser
          /\ req.api_user = NoUser
          /\ req.response = Unauthenticated
          /\ req.store # "unused"
          /\ req.key = <<"ip", req.host>>

\* C28: on an endpoint that uses require_auth and rate_limit_middleware the
\* counter incremented for a request is the one of the identity require_auth
\* returned: user:<id> when the identity came from the bearer token,
\* api:<id> when it came from the API key; never an ip: key or the key of
\* another identity, and no other counter changes.
C28_ChargedToCaller ==
    [][(RateLimitStep /\ req.dep = "require_auth") =>
         /\ req.user # NoUser
         /\ IF req.current_user # NoUser
            THEN \* the token path
                 /\ req.user = req.current_user
                 /\ req.credentials.kind = "jwt"
                 /\ req.credentials.user_id = req.user.id
                 /\ req'.key = <<"user", req.user.id>>
            ELSE \* the API-key path
                 /\ req.user = req.api_user
                 /\ req.api_key = users[req.user.id].api_key
                 /\ req'.key = <<"api", req.user.id>>
         /\ req'.store = "ok" =>
              /\ rl'[req'.key].count =
                   IF Live(rl, req'.key, now) THEN rl[req'.key].count + 1 ELSE 1
              /\ \A k \in DOMAIN rl \ {req'.key} : rl'[k] = rl[k]]_vars

\* a request with the token of one user and the API key of another was
\* admitted as the token's user and charged to that user's counter
C28_Witness ==
    /\ req.pc = "done"
    /\ req.dep = "require_auth"
    /\ req.response = Response(200, {})
    /\ req.store = "ok"
    /\ req.api_key # NoKey
    /\ req.api_user # NoUser
    /\ req.current_user # NoUser
    /\ req.api_user.id # req.current_user.id
    /\ req.user = req.current_user
    /\ req.key = <<"user", req.credentials.user_id>>
    /\ rl[req.key].count >= 1


---------------------------------------------------------------------------
(* The standalone demo service.                                            *)

\* the indices of the database's movies that satisfy every filter the
\* request supplies
Satisfying(database, request) ==
    {i \in 1 .. Len(database) :
       /\ request.min_rating # Unset => database[i].rating >= request.min_rating
       /\ request.min_year # Unset => database[i].year >= request.min_year
       /\ request.max_year # Unset => database[i].year <= request.max_year
       /\ request.preferred_genres # NoName =>
            GenreMatch(database[i], request.preferred_genres)}

\* the limit the request asks for, 5 when it is absent or 0
AskedLimit(request) ==
    IF request.limit \in {Unset, 0} THEN DefaultLimit ELSE request.limit

\* a sequence of distinct movies of the database
DistinctFrom(database, seq) ==
    /\ \A i \in 1 .. Len(seq) : \E j \in 1 .. Len(database) : seq[i] = database[j]
    /\ \A i, j \in 1 .. Len(seq) : i # j => seq[i] # seq[j]

\* the answer is the one the request is due
DueAnswer(database, request, r) ==
    LET fit == Satisfying(database, request)
        limit == AskedLimit(request)
    IN  /\ r.status = 200
        /\ r.total_recommendations = Len(r.recommendations)
        /\ DistinctFrom(database, r.recommendations)
        /\ IF fit # {}
           THEN /\ \A i \in 1 .. Len(r.recommendations) :
                      \E j \in fit : r.recommendations[i] = database[j]
                /\ \A i, j \in 1 .. Len(r.recommendations) :
                      i < j => r.recommendations[i].rating >= r.recommendations[j].rating
                /\ Len(r.recommendations) = Min(limit, Cardinality(fit))
           ELSE Len(r.recommendations) = Min(limit, Len(database))

\* C30: POST /recommendations answers with only movies that satisfy every
\* supplied filter (rating at least min_rating, year within min_year and
\* max_year, one preferred genre matched whatever its case), by rating from
\* the highest and cut to limit (5 by default); when no movie satisfies them
\* it answers with min(limit, database size) distinct movies of the database;
\* total_recommendations is the length of the list, and the database is left
\* as it was
C30_DemoRecommendations ==
    /\ MOVIES_DATABASE = SubSeq(SampleMovies, 1, Len(MOVIES_DATABASE))
    /\ reply # NoReply => DueAnswer(MOVIES_DATABASE, reply.request, reply)

\* the same for the requests whose limit is not negative
DemoRecommendationsFromZero ==
    /\ MOVIES_DATABASE = SubSeq(SampleMovies, 1, Len(MOVIES_DATABASE))
    /\ (reply # NoReply /\ (reply.request.limit = Unset \/ reply.request.limit >= 0)) =>
          DueAnswer(MOVIES_DATABASE, reply.request, reply)

====
